---- MODULE Spec2Model ----
(***************************************************************************)
(* Model of the restaurant dashboard front end: the Order Builder          *)
(* (create-order page, in its add-on-modal and add-on-sheet variants) and  *)
(* the order status lifecycle as driven by the orders-list and             *)
(* order-detail views against the order store.                             *)
(* Prices are integers (cents).                                            *)
(***************************************************************************)
EXTENDS Integers, Sequences, FiniteSets, Bags, TLC

(***************************************************************************)
(* Bounds of the model.                                                    *)
(***************************************************************************)
MaxLines == 2
MaxQuantity == 2

(***************************************************************************)
(* Records of the menu and add-on tables served by GET /menu, GET /addons. *)
(***************************************************************************)
Burger == [id |-> 1, category |-> "burger", base_price |-> 899, is_available |-> TRUE]
Cola == [id |-> 2, category |-> "drink", base_price |-> 199, is_available |-> TRUE]
Retired == [id |-> 3, category |-> "burger", base_price |-> 500, is_available |-> FALSE]

Cheese == [id |-> 1, category |-> "burger", price |-> 150, is_available |-> TRUE]
Ice == [id |-> 2, category |-> "drink", price |-> 50, is_available |-> TRUE]
Bacon == [id |-> 3, category |-> "burger", price |-> 100, is_available |-> FALSE]

NullItem == [id |-> 0, category |-> "", base_price |-> 0, is_available |-> FALSE]

VARIABLES
  menuTable,            \* the server's menu items
  addOnTable,           \* the server's add-ons
  variant,              \* "modal" (orders/create/page.tsx) or "sheet" (add-on-sheet page)
  isLoading,            \* CreateOrderPage.isLoading
  menuItems,            \* CreateOrderPage.menuItems
  availableAddOns,      \* modal variant: every add-on returned by GET /addons
  addOns,               \* sheet variant: category -> available add-ons
  selectedItems,        \* the cart: sequence of OrderItem
  totalAmount,          \* derived at render from selectedItems
  customerInfo,         \* [name, phone], both sequences of characters
  specialInstructions,  \* the notes field, a sequence of characters
  submitLoading,
  modalItem,            \* modal variant: MenuItem or NullItem
  modalQuantity,
  modalSelectedAddOns,  \* modal variant: sequence of AddOn
  isAddOnSheetOpen,     \* sheet variant
  selectedItemIndex,    \* sheet variant: index of a cart line (from 1), 0 for null
  selectedAddOns,       \* sheet variant: sequence of add-on snapshots
  timers,               \* sheet variant: pending setTimeout callbacks
  createReq,            \* the create-order request in flight (sequence of payloads)
  route,                \* "create" while the builder is mounted
  notice,               \* the toast raised by the last step, "" if none
  orderStore,           \* the server's orders: id -> [status, estimated_preparation_time]
  everConfirmed,        \* history: the ids whose stored status has been confirmed
  ordersPage,           \* state of OrdersPage (orders list view)
  detailsPage,          \* state of OrderDetailsPage (order detail view)
  net,                  \* bag of requests and responses in flight
  homePage,             \* state of DashboardPage (dashboard home)
  storage,              \* localStorage: [token, user]
  defaultAuth,          \* api.defaults.headers.common['Authorization'] of the shared client
  location,             \* window.location.pathname
  auth,                 \* AuthProvider state: [user, isLoading]
  wire,                 \* bag of the requests and answers of the session in flight
  settingsPage,         \* state of SettingsPage
  usersPage,            \* state of UsersPage
  restaurant,           \* the server's restaurant record: [is_active]
  menuPage,             \* state of MenuPage
  customersPage,        \* state of CustomersPage
  proxy                 \* the users proxy routes: the last request handled

builderVars ==
  << menuTable, addOnTable, variant, isLoading, menuItems, availableAddOns, addOns, selectedItems,
     totalAmount, customerInfo, submitLoading, modalItem, modalQuantity,
     modalSelectedAddOns, isAddOnSheetOpen, selectedItemIndex, selectedAddOns,
     timers, createReq, route, specialInstructions >>

ordersVars == << orderStore, everConfirmed, ordersPage, detailsPage, net >>

sessionVars == << storage, defaultAuth, location, auth >>

pagesVars == << settingsPage, usersPage, menuPage, customersPage, proxy >>

appVars == << homePage, sessionVars, wire, pagesVars, restaurant >>

vars == << builderVars, notice, ordersVars, appVars >>

(***************************************************************************)
(* Array helpers.                                                          *)
(***************************************************************************)
RECURSIVE SumPrices(_)
SumPrices(s) == IF s = << >> THEN 0 ELSE Head(s).price + SumPrices(Tail(s))

RECURSIVE SumTotals(_)
SumTotals(s) == IF s = << >> THEN 0 ELSE Head(s).total_price + SumTotals(Tail(s))

RECURSIVE RemoveById(_, _)
RemoveById(s, id) ==
  IF s = << >> THEN << >>
  ELSE IF Head(s).id = id THEN RemoveById(Tail(s), id)
       ELSE << Head(s) >> \o RemoveById(Tail(s), id)

RECURSIVE RemoveByAddOnId(_, _)
RemoveByAddOnId(s, id) ==
  IF s = << >> THEN << >>
  ELSE IF Head(s).add_on_id = id THEN RemoveByAddOnId(Tail(s), id)
       ELSE << Head(s) >> \o RemoveByAddOnId(Tail(s), id)

Splice(s, i) == [k \in 1..(Len(s) - 1) |-> IF k < i THEN s[k] ELSE s[k + 1]]

Snapshot(ao) == [add_on_id |-> ao.id, price |-> ao.price]

MapSnapshot(s) == [k \in 1..Len(s) |-> Snapshot(s[k])]

(***************************************************************************)
(* Strings are sequences of characters.                                    *)
(***************************************************************************)
Digits == {"0", "1", "2", "3", "4", "5", "6", "7", "8", "9"}

Min(a, b) == IF a < b THEN a ELSE b

\* String.prototype.slice(a, b) for 0 <= a <= b
Slice(s, a, b) == SubSeq(s, a + 1, Min(b, Len(s)))

\* value.replace(/\D/g, "")
RECURSIVE StripNonDigits(_)
StripNonDigits(s) ==
  IF s = << >> THEN << >>
  ELSE IF Head(s) \in Digits THEN << Head(s) >> \o StripNonDigits(Tail(s))
       ELSE StripNonDigits(Tail(s))

\* String.prototype.trim()
RECURSIVE TrimLeft(_)
TrimLeft(s) == IF s # << >> /\ Head(s) = " " THEN TrimLeft(Tail(s)) ELSE s

RECURSIVE TrimRight(_)
TrimRight(s) ==
  IF s # << >> /\ s[Len(s)] = " " THEN TrimRight(SubSeq(s, 1, Len(s) - 1)) ELSE s

Trim(s) == TrimRight(TrimLeft(s))

\* FormatPhoneInput with the last group sliced as slice(6) instead of slice(6, 10)
FormatPhoneInputUncapped(value) ==
  LET formattedValue == StripNonDigits(value) IN
    IF Len(formattedValue) <= 3 THEN formattedValue
    ELSE IF Len(formattedValue) <= 6
         THEN Slice(formattedValue, 0, 3) \o << "-" >>
              \o Slice(formattedValue, 3, Len(formattedValue))
         ELSE Slice(formattedValue, 0, 3) \o << "-" >> \o Slice(formattedValue, 3, 6)
              \o << "-" >> \o Slice(formattedValue, 6, Len(formattedValue))

\* the phone branch of handleCustomerInfoChange: digits regrouped as XXX-XXX-XXXX
FormatPhoneInput(value) ==
  LET formattedValue == StripNonDigits(value) IN
    IF Len(formattedValue) <= 3 THEN formattedValue
    ELSE IF Len(formattedValue) <= 6
         THEN Slice(formattedValue, 0, 3) \o << "-" >>
              \o Slice(formattedValue, 3, Len(formattedValue))
         ELSE Slice(formattedValue, 0, 3) \o << "-" >> \o Slice(formattedValue, 3, 6)
              \o << "-" >> \o Slice(formattedValue, 6, 10)

(***************************************************************************)
(* Order Builder, add-on-modal variant (orders/create/page.tsx).           *)
(***************************************************************************)
Mounted == route = "create" /\ ~isLoading

\* the page behind the add-on dialog / add-on sheet is inert while it is open
PageActive == Mounted /\ modalItem = NullItem /\ ~isAddOnSheetOpen

\* line totals as each call site computes them
AddItemLineTotal(quantity, base_price, addonsTotal) == quantity * base_price + addonsTotal

UpdateQuantityLineTotalPerUnit(quantity, base_price, addonsTotal) ==
  quantity * (base_price + addonsTotal)

UpdateQuantityLineTotal(quantity, base_price, addonsTotal) == quantity * base_price + addonsTotal

ToggleAddOnLineTotal(quantity, base_price, addonsTotal) == quantity * base_price + addonsTotal

ModalLineTotal(quantity, base_price, addonsTotal) == quantity * base_price + addonsTotal

RECURSIVE SumBase(_)
SumBase(s) == IF s = << >> THEN 0 ELSE Head(s).quantity * Head(s).base_price + SumBase(Tail(s))

\* Render summing quantity * base_price instead of total_price
RenderFromBase(items) == SumBase(items)

\* const totalAmount = selectedItems.reduce(...), evaluated on every render
Render(items) == SumTotals(items)

modalUnchanged == UNCHANGED << modalItem, modalQuantity, modalSelectedAddOns >>

sheetUnchanged ==
  UNCHANGED << isAddOnSheetOpen, selectedItemIndex, selectedAddOns, timers >>

catalogUnchanged ==
  UNCHANGED << ordersVars, appVars, menuTable, addOnTable, variant, isLoading, menuItems, availableAddOns, addOns >>

submitUnchanged == UNCHANGED << customerInfo, specialInstructions, submitLoading, createReq, route >>

\* useEffect fetchMenuItems: both requests answered, or one of them failed
fetchMenuItems ==
  /\ variant = "modal" /\ route = "create" /\ isLoading
  /\ \/ /\ availableAddOns' = addOnTable
        /\ menuItems' = {item \in menuTable : item.is_available}
        /\ notice' = ""
     \/ /\ UNCHANGED << availableAddOns, menuItems >>
        /\ notice' = "Failed to load menu items"
  /\ isLoading' = FALSE
  /\ UNCHANGED << ordersVars, appVars, menuTable, addOnTable, variant, addOns, selectedItems, totalAmount >>
  /\ modalUnchanged /\ sheetUnchanged /\ submitUnchanged

openAddItemModal(menuItem) ==
  /\ variant = "modal" /\ PageActive
  /\ menuItem \in menuItems
  /\ modalItem' = menuItem
  /\ modalQuantity' = 1
  /\ modalSelectedAddOns' = << >>
  /\ (UNCHANGED << selectedItems, totalAmount >> /\ notice' = "")
  /\ catalogUnchanged /\ sheetUnchanged /\ submitUnchanged

closeAddItemModal ==
  /\ variant = "modal" /\ Mounted /\ modalItem # NullItem
  /\ modalItem' = NullItem
  /\ (UNCHANGED << modalQuantity, modalSelectedAddOns, selectedItems, totalAmount >> /\ notice' = "")
  /\ catalogUnchanged /\ sheetUnchanged /\ submitUnchanged

\* the modal's minus and plus buttons
setModalQuantity(delta) ==
  /\ variant = "modal" /\ Mounted /\ modalItem # NullItem
  /\ modalQuantity' = IF delta = -1 THEN (IF modalQuantity - 1 > 1 THEN modalQuantity - 1 ELSE 1)
                      ELSE modalQuantity + 1
  /\ modalQuantity' <= MaxQuantity
  /\ modalQuantity' # modalQuantity
  /\ (UNCHANGED << modalItem, modalSelectedAddOns, selectedItems, totalAmount >> /\ notice' = "")
  /\ catalogUnchanged /\ sheetUnchanged /\ submitUnchanged

\* add-ons offered by the modal: availableAddOns.filter(ao => ao.category === modalItem?.category)
ModalOffered == {ao \in availableAddOns : ao.category = modalItem.category}

toggleModalAddOn(ao) ==
  /\ variant = "modal" /\ Mounted /\ modalItem # NullItem
  /\ ao \in ModalOffered
  /\ modalSelectedAddOns' =
       IF \E k \in 1..Len(modalSelectedAddOns) : modalSelectedAddOns[k].id = ao.id
       THEN RemoveById(modalSelectedAddOns, ao.id)
       ELSE Append(modalSelectedAddOns, ao)
  /\ (UNCHANGED << modalItem, modalQuantity, selectedItems, totalAmount >> /\ notice' = "")
  /\ catalogUnchanged /\ sheetUnchanged /\ submitUnchanged

addModalItemToOrder ==
  /\ variant = "modal" /\ Mounted /\ modalItem # NullItem
  /\ Len(selectedItems) < MaxLines
  /\ LET addonsTotal == SumPrices(modalSelectedAddOns)
         newItem == [menu_item_id |-> modalItem.id,
                     quantity |-> modalQuantity,
                     base_price |-> modalItem.base_price,
                     add_ons |-> MapSnapshot(modalSelectedAddOns),
                     total_price |-> ModalLineTotal(modalQuantity, modalItem.base_price, addonsTotal)]
     IN selectedItems' = Append(selectedItems, newItem)
  /\ totalAmount' = Render(selectedItems')
  /\ modalItem' = NullItem
  /\ (UNCHANGED << modalQuantity, modalSelectedAddOns >> /\ notice' = "")
  /\ catalogUnchanged /\ sheetUnchanged /\ submitUnchanged

handleRemoveItem(index) ==
  /\ variant = "modal" /\ PageActive
  /\ index \in 1..Len(selectedItems)
  /\ selectedItems' = Splice(selectedItems, index)
  /\ totalAmount' = Render(selectedItems')
  /\ notice' = ""
  /\ catalogUnchanged /\ modalUnchanged /\ sheetUnchanged /\ submitUnchanged

\* handleUpdateQuantity without the removal of a line lowered to 0
handleUpdateQuantityNoRemove(index, quantity) ==
  /\ variant = "modal" /\ PageActive
  /\ index \in 1..Len(selectedItems)
  /\ quantity <= MaxQuantity
  /\ LET item == selectedItems[index]
         addonsTotal == SumPrices(item.add_ons)
     IN selectedItems' =
          [selectedItems EXCEPT ![index] =
             [item EXCEPT !.quantity = quantity,
                          !.total_price =
                             UpdateQuantityLineTotal(quantity, item.base_price, addonsTotal)]]
  /\ totalAmount' = Render(selectedItems')
  /\ notice' = ""
  /\ catalogUnchanged /\ modalUnchanged /\ sheetUnchanged /\ submitUnchanged

\* the line's minus and plus buttons: handleUpdateQuantity(index, item.quantity -/+ 1)
handleUpdateQuantity(index, quantity) ==
  /\ variant = "modal" /\ PageActive
  /\ index \in 1..Len(selectedItems)
  /\ quantity <= MaxQuantity
  /\ IF quantity <= 0
     THEN selectedItems' = Splice(selectedItems, index)
     ELSE LET item == selectedItems[index]
              addonsTotal == SumPrices(item.add_ons)
          IN selectedItems' =
               [selectedItems EXCEPT ![index] =
                  [item EXCEPT !.quantity = quantity,
                               !.total_price =
                                  UpdateQuantityLineTotal(quantity, item.base_price, addonsTotal)]]
  /\ totalAmount' = Render(selectedItems')
  /\ notice' = ""
  /\ catalogUnchanged /\ modalUnchanged /\ sheetUnchanged /\ submitUnchanged

\* handleAddItem and toggleAddOn are defined by the component but no element of
\* the rendered page calls them; they are part of SpecHandlers only.
handleAddItem(menuItem) ==
  /\ variant = "modal" /\ PageActive
  /\ menuItem \in menuItems
  /\ IF \E k \in 1..Len(selectedItems) : selectedItems[k].menu_item_id = menuItem.id
     THEN LET existingItemIndex ==
                CHOOSE k \in 1..Len(selectedItems) :
                  /\ selectedItems[k].menu_item_id = menuItem.id
                  /\ \A j \in 1..(k - 1) : selectedItems[j].menu_item_id # menuItem.id
              item == selectedItems[existingItemIndex]
              addonsTotal == SumPrices(item.add_ons)
          IN /\ item.quantity + 1 <= MaxQuantity
             /\ selectedItems' =
                  [selectedItems EXCEPT ![existingItemIndex] =
                     [item EXCEPT !.quantity = item.quantity + 1,
                                  !.total_price =
                                     AddItemLineTotal(item.quantity + 1, item.base_price, addonsTotal)]]
     ELSE /\ Len(selectedItems) < MaxLines
          /\ selectedItems' =
               Append(selectedItems,
                      [menu_item_id |-> menuItem.id,
                       quantity |-> 1,
                       base_price |-> menuItem.base_price,
                       add_ons |-> << >>,
                       total_price |-> menuItem.base_price])
  /\ totalAmount' = Render(selectedItems')
  /\ notice' = ""
  /\ catalogUnchanged /\ modalUnchanged /\ sheetUnchanged /\ submitUnchanged

toggleAddOn(itemIndex, ao) ==
  /\ variant = "modal" /\ PageActive
  /\ itemIndex \in 1..Len(selectedItems)
  /\ ao \in availableAddOns
  /\ LET item == selectedItems[itemIndex]
         existing == \E k \in 1..Len(item.add_ons) : item.add_ons[k].add_on_id = ao.id
         newAddOns == IF existing THEN RemoveByAddOnId(item.add_ons, ao.id)
                      ELSE Append(item.add_ons, Snapshot(ao))
         addonsTotal == SumPrices(newAddOns)
     IN selectedItems' =
          [selectedItems EXCEPT ![itemIndex] =
             [item EXCEPT !.add_ons = newAddOns,
                          !.total_price =
                             ToggleAddOnLineTotal(item.quantity, item.base_price, addonsTotal)]]
  /\ totalAmount' = Render(selectedItems')
  /\ notice' = ""
  /\ catalogUnchanged /\ modalUnchanged /\ sheetUnchanged /\ submitUnchanged

(***************************************************************************)
(* Order Builder, add-on-sheet variant.                                    *)
(***************************************************************************)
MaxTimers == 1

\* line totals as each call site of the sheet variant computes them
SheetUpdateQuantityLineTotal(quantity, base_price, addonsTotal) == quantity * base_price

ConfirmAddOnsLineTotal(quantity, base_price, addOnTotalPrice) ==
  (base_price * quantity) + (addOnTotalPrice * quantity)

\* useEffect fetchMenuItems: GET /menu, then GET /addons?category=c for each category
Sheet_fetchMenuItems ==
  /\ variant = "sheet" /\ route = "create" /\ isLoading
  /\ LET availableItems == {item \in menuTable : item.is_available}
         categories == {item.category : item \in availableItems}
     IN \/ /\ menuItems' = availableItems
           /\ addOns' = [c \in categories |->
                           {addon \in addOnTable : addon.category = c /\ addon.is_available}]
           /\ notice' = ""
        \/ /\ menuItems' = availableItems
           /\ UNCHANGED addOns
           /\ notice' = "Failed to load menu items"
        \/ /\ UNCHANGED << menuItems, addOns >>
           /\ notice' = "Failed to load menu items"
  /\ isLoading' = FALSE
  /\ UNCHANGED << ordersVars, appVars, menuTable, addOnTable, variant, availableAddOns, selectedItems, totalAmount >>
  /\ modalUnchanged /\ sheetUnchanged /\ submitUnchanged

\* appends a line and schedules openAddOnSheet(newItemIndex) of the current render
Sheet_handleAddItem(menuItem) ==
  /\ variant = "sheet" /\ PageActive
  /\ menuItem \in menuItems
  /\ Len(selectedItems) < MaxLines
  /\ Len(timers) < MaxTimers
  /\ selectedItems' =
       Append(selectedItems,
              [menu_item_id |-> menuItem.id,
               quantity |-> 1,
               base_price |-> menuItem.base_price,
               add_ons |-> << >>,
               total_price |-> menuItem.base_price])
  /\ totalAmount' = Render(selectedItems')
  /\ timers' = Append(timers, [index |-> Len(selectedItems) + 1, closure |-> selectedItems])
  /\ (UNCHANGED << isAddOnSheetOpen, selectedItemIndex, selectedAddOns >> /\ notice' = "")
  /\ catalogUnchanged /\ modalUnchanged /\ submitUnchanged

\* openAddOnSheet(index) reading the cart `items` of the render it was created in
OpenAddOnSheetEffect(index, items) ==
  IF index \notin 1..Len(items)
  THEN \* orderItem is undefined: reading orderItem.menu_item_id throws
       (UNCHANGED << selectedItemIndex, selectedAddOns, isAddOnSheetOpen >> /\ notice' = "")
  ELSE IF ~\E item \in menuItems : item.id = items[index].menu_item_id
       THEN /\ notice' = "Cannot find menu item information"
            /\ UNCHANGED << selectedItemIndex, selectedAddOns, isAddOnSheetOpen >>
       ELSE /\ selectedItemIndex' = index
            /\ selectedAddOns' = items[index].add_ons
            /\ isAddOnSheetOpen' = TRUE
            /\ notice' = ""

\* the line's Add-ons button
openAddOnSheet(index) ==
  /\ variant = "sheet" /\ PageActive
  /\ index \in 1..Len(selectedItems)
  /\ OpenAddOnSheetEffect(index, selectedItems)
  /\ UNCHANGED << selectedItems, totalAmount, timers >>
  /\ catalogUnchanged /\ modalUnchanged /\ submitUnchanged

\* the setTimeout callback of handleAddItem
timerFires ==
  /\ variant = "sheet" /\ timers # << >>
  /\ OpenAddOnSheetEffect(Head(timers).index, Head(timers).closure)
  /\ timers' = Tail(timers)
  /\ UNCHANGED << selectedItems, totalAmount >>
  /\ catalogUnchanged /\ modalUnchanged /\ submitUnchanged

\* add-ons listed by the sheet for the line selectedItemIndex
SheetOffered ==
  IF selectedItemIndex \in 1..Len(selectedItems)
  THEN UNION {addOns[item.category] :
                item \in {m \in menuItems :
                            /\ m.id = selectedItems[selectedItemIndex].menu_item_id
                            /\ m.category \in DOMAIN addOns}}
  ELSE {}

handleAddOnToggle(addOn) ==
  /\ variant = "sheet" /\ Mounted /\ isAddOnSheetOpen
  /\ addOn \in SheetOffered
  /\ selectedAddOns' =
       IF \E k \in 1..Len(selectedAddOns) : selectedAddOns[k].add_on_id = addOn.id
       THEN RemoveByAddOnId(selectedAddOns, addOn.id)
       ELSE Append(selectedAddOns, Snapshot(addOn))
  /\ (UNCHANGED << selectedItems, totalAmount, isAddOnSheetOpen, selectedItemIndex, timers >> /\ notice' = "")
  /\ catalogUnchanged /\ modalUnchanged /\ submitUnchanged

confirmAddOns ==
  /\ variant = "sheet" /\ Mounted /\ isAddOnSheetOpen
  /\ IF selectedItemIndex = 0
     THEN (UNCHANGED << selectedItems, totalAmount, isAddOnSheetOpen, selectedItemIndex >> /\ notice' = "")
     ELSE IF selectedItemIndex \notin 1..Len(selectedItems)
          THEN \* item is undefined: assigning item.add_ons throws
               (UNCHANGED << selectedItems, totalAmount, isAddOnSheetOpen, selectedItemIndex >> /\ notice' = "")
          ELSE LET addOnTotalPrice == SumPrices(selectedAddOns)
                   item == selectedItems[selectedItemIndex]
               IN /\ selectedItems' =
                       [selectedItems EXCEPT ![selectedItemIndex] =
                          [item EXCEPT !.add_ons = selectedAddOns,
                                       !.total_price =
                                          ConfirmAddOnsLineTotal(item.quantity, item.base_price,
                                                                 addOnTotalPrice)]]
                  /\ totalAmount' = Render(selectedItems')
                  /\ isAddOnSheetOpen' = FALSE
                  /\ selectedItemIndex' = 0
                  /\ notice' = "Add-ons updated"
  /\ UNCHANGED << selectedAddOns, timers >>
  /\ catalogUnchanged /\ modalUnchanged /\ submitUnchanged

\* the sheet's Cancel button and onOpenChange: setIsAddOnSheetOpen(false)
closeAddOnSheet ==
  /\ variant = "sheet" /\ Mounted /\ isAddOnSheetOpen
  /\ isAddOnSheetOpen' = FALSE
  /\ (UNCHANGED << selectedItems, totalAmount, selectedItemIndex, selectedAddOns, timers >> /\ notice' = "")
  /\ catalogUnchanged /\ modalUnchanged /\ submitUnchanged

Sheet_handleRemoveItem(index) ==
  /\ variant = "sheet" /\ PageActive
  /\ index \in 1..Len(selectedItems)
  /\ selectedItems' = Splice(selectedItems, index)
  /\ totalAmount' = Render(selectedItems')
  /\ notice' = ""
  /\ catalogUnchanged /\ modalUnchanged /\ sheetUnchanged /\ submitUnchanged

Sheet_handleUpdateQuantity(index, quantity) ==
  /\ variant = "sheet" /\ PageActive
  /\ index \in 1..Len(selectedItems)
  /\ quantity <= MaxQuantity
  /\ IF quantity <= 0
     THEN selectedItems' = Splice(selectedItems, index)
     ELSE LET item == selectedItems[index]
          IN selectedItems' =
               [selectedItems EXCEPT ![index] =
                  [item EXCEPT !.quantity = quantity,
                               !.total_price =
                                  SheetUpdateQuantityLineTotal(quantity, item.base_price,
                                                               SumPrices(item.add_ons))]]
  /\ totalAmount' = Render(selectedItems')
  /\ notice' = ""
  /\ catalogUnchanged /\ modalUnchanged /\ sheetUnchanged /\ submitUnchanged

(***************************************************************************)
(* Customer form and submission (identical in both variants).              *)
(***************************************************************************)
MaxPhoneField == 12      \* maxLength of the phone input

KeyChars == {"5", "-"}

\* complete values pasted into the phone field
PastedPhones ==
  { << "5", "5", "5", "-", "1", "2", "3", "-", "4", "5", "6", "7" >>,
    << "1", "5", "5", "5", "1", "2", "3", "4", "5", "6", "7" >> }

NameInputs == { << >>, << " " >>, << "A", "l" >> }

\* what an edit of the phone field hands to onChange
PhoneEdits(phone) ==
  {Append(phone, c) : c \in {k \in KeyChars : Len(phone) < MaxPhoneField}}
    \cup {SubSeq(phone, 1, Len(phone) - 1) : x \in {y \in {1} : phone # << >>}}
    \cup PastedPhones

handleCustomerInfoChange(name, value) ==
  /\ PageActive
  /\ IF name = "phone"
     THEN customerInfo' = [customerInfo EXCEPT !.phone = FormatPhoneInput(value)]
     ELSE customerInfo' = [customerInfo EXCEPT !.name = value]
  /\ customerInfo' # customerInfo
  /\ (UNCHANGED << selectedItems, totalAmount, specialInstructions, submitLoading, createReq, route >> /\ notice' = "")
  /\ catalogUnchanged /\ modalUnchanged /\ sheetUnchanged

NoteInputs == { << >>, << "x" >> }

\* onChange of the special-instructions field
setSpecialInstructions(value) ==
  /\ PageActive
  /\ specialInstructions' = value
  /\ specialInstructions' # specialInstructions
  /\ (UNCHANGED << selectedItems, totalAmount, customerInfo, submitLoading, createReq, route >> /\ notice' = "")
  /\ catalogUnchanged /\ modalUnchanged /\ sheetUnchanged

PhoneError == "Please enter a valid phone number (10 digits required)"

\* validateOrderData testing the name without trim()
validateOrderDataNoTrim ==
  IF customerInfo.name = << >> THEN "Customer name is required"
  ELSE IF Len(StripNonDigits(customerInfo.phone)) < 10 THEN PhoneError
  ELSE IF Len(selectedItems) = 0 THEN "Please add at least one item to the order"
  ELSE "valid"

validateOrderData ==
  IF Trim(customerInfo.name) = << >> THEN "Customer name is required"
  ELSE IF Len(StripNonDigits(customerInfo.phone)) < 10 THEN PhoneError
  ELSE IF Len(selectedItems) = 0 THEN "Please add at least one item to the order"
  ELSE "valid"

\* handleCreateOrder with the button left enabled while a request is in flight
handleCreateOrderWhileLoading ==
  /\ PageActive
  /\ selectedItems # << >>
  /\ IF validateOrderData # "valid"
     THEN /\ notice' = validateOrderData
          /\ UNCHANGED << submitLoading, createReq >>
     ELSE /\ submitLoading' = TRUE
          /\ createReq' =
               Append(createReq,
                      [customer_name |-> customerInfo.name,
                       customer_phone |-> StripNonDigits(customerInfo.phone),
                       order_items |-> selectedItems,
                       total_amount |-> totalAmount,
                       special_instructions |-> specialInstructions])
          /\ notice' = ""
  /\ UNCHANGED << selectedItems, totalAmount, customerInfo, specialInstructions, route >>
  /\ catalogUnchanged /\ modalUnchanged /\ sheetUnchanged

\* the Create Order button is disabled while the cart is empty or a submission runs
handleCreateOrder ==
  /\ PageActive
  /\ selectedItems # << >> /\ ~submitLoading
  /\ IF validateOrderData # "valid"
     THEN /\ notice' = validateOrderData
          /\ UNCHANGED << submitLoading, createReq >>
     ELSE /\ submitLoading' = TRUE
          /\ createReq' =
               Append(createReq,
                      [customer_name |-> customerInfo.name,
                       customer_phone |-> StripNonDigits(customerInfo.phone),
                       order_items |-> selectedItems,
                       total_amount |-> totalAmount,
                       special_instructions |-> specialInstructions])
          /\ notice' = ""
  /\ UNCHANGED << selectedItems, totalAmount, customerInfo, specialInstructions, route >>
  /\ catalogUnchanged /\ modalUnchanged /\ sheetUnchanged

\* the answer to POST /orders
createOrderResponse(ok) ==
  /\ route = "create" /\ createReq # << >>
  /\ createReq' = Tail(createReq)
  /\ submitLoading' = FALSE
  /\ IF ok
     THEN notice' = "Order created successfully" /\ route' = "detail"
     ELSE notice' = "Failed to create order" /\ route' = route
  /\ UNCHANGED << selectedItems, totalAmount, customerInfo, specialInstructions >>
  /\ catalogUnchanged /\ modalUnchanged /\ sheetUnchanged

(***************************************************************************)
(* Order status lifecycle: the order store, OrdersPage and OrderDetailsPage.*)
(***************************************************************************)
MaxInFlight == 2

OrderIds == {1}

\* the order the detail view is opened on (params.id)
orderId == 1

\* an optional number is the empty sequence (undefined) or << n >>
NoTime == << >>

NullOrder == [status |-> "null", estimated_preparation_time |-> NoTime]

\* an object with no field of an order but order_items
BlankOrder == [status |-> "", estimated_preparation_time |-> NoTime]

Truthy(time) == time # NoTime /\ time[1] # 0

\* what the staff member can leave in a time field
TimeInputs == { << >>, << "4", "5" >>, << "0" >> }

DigitValue(c) ==
  CASE c = "0" -> 0 [] c = "1" -> 1 [] c = "2" -> 2 [] c = "3" -> 3 [] c = "4" -> 4
    [] c = "5" -> 5 [] c = "6" -> 6 [] c = "7" -> 7 [] c = "8" -> 8 [] c = "9" -> 9

RECURSIVE LeadingDigits(_)
LeadingDigits(s) ==
  IF s # << >> /\ Head(s) \in Digits THEN << Head(s) >> \o LeadingDigits(Tail(s)) ELSE << >>

RECURSIVE DigitsToNumber(_)
DigitsToNumber(s) ==
  IF s = << >> THEN 0 ELSE 10 * DigitsToNumber(SubSeq(s, 1, Len(s) - 1)) + DigitValue(s[Len(s)])

\* parseInt(text) || fallback : NaN and 0 are falsy
ParseIntOr(text, fallback) ==
  LET t == TrimLeft(text)
      negative == t # << >> /\ Head(t) = "-"
      body == IF t # << >> /\ Head(t) \in {"-", "+"} THEN Tail(t) ELSE t
      digits == LeadingDigits(body)
      n == IF negative THEN 0 - DigitsToNumber(digits) ELSE DigitsToNumber(digits)
  IN IF digits = << >> \/ n = 0 THEN fallback ELSE n

Message(from, handler, id, status, time, order) ==
  [from |-> from, handler |-> handler, id |-> id, status |-> status, time |-> time,
   order |-> order, phase |-> "request", body |-> << >>]

Send(m) == net' = net (+) SetToBag({m})

Replace(m, m2) == net' = (net (-) SetToBag({m})) (+) SetToBag({m2})

Receive(m) == net' = net (-) SetToBag({m})

CanSend == BagCardinality(net) < MaxInFlight

Requests == {m \in BagToSet(net) : m.phase = "request"}

Responses(from) == {m \in BagToSet(net) : m.phase # "request" /\ m.from = from}

builderUnchanged == UNCHANGED << builderVars, appVars >>

(***************************************************************************)
(* The order store behind PUT /orders/{id}/status, POST /set-time/{id},    *)
(* GET /orders and GET /orders/{id}: every accepted write replaces the     *)
(* stored field, whatever the stored status is.                            *)
(***************************************************************************)
StoreAfter(m) ==
  IF m.handler \in {"handleUpdateStatus", "handleConfirmWithTime"}
  THEN [orderStore EXCEPT ![m.id] =
          [status |-> m.status,
           estimated_preparation_time |->
             IF m.time # NoTime THEN m.time ELSE orderStore[m.id].estimated_preparation_time]]
  ELSE IF m.handler = "handleUpdateEstimatedTime"
       THEN [orderStore EXCEPT ![m.id].estimated_preparation_time = m.time]
       ELSE orderStore

\* the request is carried out and answered
serverAccepts(m) ==
  /\ m \in Requests
  /\ orderStore' = StoreAfter(m)
  /\ everConfirmed' = everConfirmed \cup {i \in OrderIds : orderStore'[i].status = "confirmed"}
  /\ Replace(m, [m EXCEPT !.phase = "ok",
                          !.body = IF m.handler = "fetch" THEN orderStore ELSE << >>])
  /\ UNCHANGED << ordersPage, detailsPage >>
  /\ builderUnchanged /\ notice' = ""

\* network or server error: the request is not carried out
requestFails(m) ==
  /\ m \in Requests
  /\ Replace(m, [m EXCEPT !.phase = "error"])
  /\ UNCHANGED << orderStore, everConfirmed, ordersPage, detailsPage >>
  /\ builderUnchanged /\ notice' = ""

(***************************************************************************)
(* OrdersPage (dashboard/orders/page.tsx).                                 *)
(***************************************************************************)
\* ListButtons with Begin Prep also offered on a pending row
ListButtonsSkipConfirm(status) ==
  CASE status = "pending" -> {"cancelled", "preparing"}
    [] status = "confirmed" -> {"preparing"}
    [] status = "preparing" -> {"ready"}
    [] status = "ready" -> {"delivered"}
    [] OTHER -> {}

\* status buttons of a row, by the row's status
ListButtons(status) ==
  CASE status = "pending" -> {"cancelled"}
    [] status = "confirmed" -> {"preparing"}
    [] status = "preparing" -> {"ready"}
    [] status = "ready" -> {"delivered"}
    [] OTHER -> {}

\* the table is rendered, and the confirm dialog does not cover it
ListActive == ~ordersPage.isLoading /\ DOMAIN ordersPage.orders # {}

ListTableActive == ListActive /\ ordersPage.confirmingOrderId = 0

\* the Refresh button
List_fetchOrders ==
  /\ ListTableActive /\ CanSend
  /\ ordersPage' = [ordersPage EXCEPT !.isLoading = TRUE]
  /\ Send(Message("list", "fetch", 0, "", NoTime, NullOrder))
  /\ UNCHANGED << orderStore, everConfirmed, detailsPage >>
  /\ builderUnchanged /\ notice' = ""

List_fetchOrdersResponse(m) ==
  /\ m \in Responses("list") /\ m.handler = "fetch"
  /\ Receive(m)
  /\ IF m.phase = "ok"
     THEN /\ ordersPage' = [ordersPage EXCEPT !.orders = m.body, !.isLoading = FALSE]
          /\ notice' = ""
     ELSE /\ ordersPage' = [ordersPage EXCEPT !.isLoading = FALSE]
          /\ notice' = "Failed to load orders"
  /\ UNCHANGED << orderStore, everConfirmed, detailsPage >>
  /\ builderUnchanged

List_handleUpdateStatus(id, newStatus) ==
  /\ ListTableActive /\ CanSend
  /\ id \in DOMAIN ordersPage.orders
  /\ newStatus \in ListButtons(ordersPage.orders[id].status)
  /\ Send(Message("list", "handleUpdateStatus", id, newStatus, NoTime, NullOrder))
  /\ UNCHANGED << orderStore, everConfirmed, ordersPage, detailsPage >>
  /\ builderUnchanged /\ notice' = ""

List_handleUpdateStatusResponse(m) ==
  /\ m \in Responses("list") /\ m.handler = "handleUpdateStatus"
  /\ Receive(m)
  /\ IF m.phase = "ok"
     THEN /\ ordersPage' =
               [ordersPage EXCEPT
                  !.orders = [i \in DOMAIN ordersPage.orders |->
                                IF i = m.id
                                THEN [ordersPage.orders[i] EXCEPT !.status = m.status]
                                ELSE ordersPage.orders[i]]]
          /\ notice' = "Order updated"
     ELSE UNCHANGED ordersPage /\ notice' = "Failed to update order status"
  /\ UNCHANGED << orderStore, everConfirmed, detailsPage >>
  /\ builderUnchanged

List_openConfirmDialog(id) ==
  /\ ListTableActive
  /\ id \in DOMAIN ordersPage.orders
  /\ ordersPage.orders[id].status = "pending"
  /\ ordersPage' = [ordersPage EXCEPT !.confirmingOrderId = id, !.estimatedTime = 30]
  /\ UNCHANGED << orderStore, everConfirmed, detailsPage, net >>
  /\ builderUnchanged /\ notice' = ""

\* the dialog's Cancel button and onOpenChange(false)
List_closeConfirmDialog ==
  /\ ListActive /\ ordersPage.confirmingOrderId # 0
  /\ ordersPage' = [ordersPage EXCEPT !.confirmingOrderId = 0]
  /\ UNCHANGED << orderStore, everConfirmed, detailsPage, net >>
  /\ builderUnchanged /\ notice' = ""

\* onChange of the dialog's time field
List_setEstimatedTime(text) ==
  /\ ListActive /\ ordersPage.confirmingOrderId # 0
  /\ ordersPage' = [ordersPage EXCEPT !.estimatedTime = ParseIntOr(text, 30)]
  /\ UNCHANGED << orderStore, everConfirmed, detailsPage, net >>
  /\ builderUnchanged /\ notice' = ""

List_handleConfirmWithTime ==
  /\ ListActive /\ ordersPage.confirmingOrderId # 0
  /\ CanSend
  /\ Send(Message("list", "handleConfirmWithTime", ordersPage.confirmingOrderId, "confirmed",
                  << ordersPage.estimatedTime >>, NullOrder))
  /\ UNCHANGED << orderStore, everConfirmed, ordersPage, detailsPage >>
  /\ builderUnchanged /\ notice' = ""

\* List_handleConfirmWithTimeResponse adding the minutes to the time the row shows
List_handleConfirmWithTimeResponseAddTime(m) ==
  /\ m \in Responses("list") /\ m.handler = "handleConfirmWithTime"
  /\ Receive(m)
  /\ IF m.phase = "ok"
     THEN /\ ordersPage' =
               [ordersPage EXCEPT
                  !.orders = [i \in DOMAIN ordersPage.orders |->
                                IF i = m.id
                                THEN [status |-> "confirmed",
                                      estimated_preparation_time |->
                                        IF ordersPage.orders[i].estimated_preparation_time = NoTime
                                        THEN m.time
                                        ELSE << ordersPage.orders[i].estimated_preparation_time[1]
                                                  + m.time[1] >>]
                                ELSE ordersPage.orders[i]],
                  !.confirmingOrderId = 0]
          /\ notice' = "Order confirmed"
     ELSE UNCHANGED ordersPage /\ notice' = "Failed to confirm order"
  /\ UNCHANGED << orderStore, everConfirmed, detailsPage >>
  /\ builderUnchanged

List_handleConfirmWithTimeResponse(m) ==
  /\ m \in Responses("list") /\ m.handler = "handleConfirmWithTime"
  /\ Receive(m)
  /\ IF m.phase = "ok"
     THEN /\ ordersPage' =
               [ordersPage EXCEPT
                  !.orders = [i \in DOMAIN ordersPage.orders |->
                                IF i = m.id
                                THEN [status |-> "confirmed", estimated_preparation_time |-> m.time]
                                ELSE ordersPage.orders[i]],
                  !.confirmingOrderId = 0]
          /\ notice' = "Order confirmed"
     ELSE UNCHANGED ordersPage /\ notice' = "Failed to confirm order"
  /\ UNCHANGED << orderStore, everConfirmed, detailsPage >>
  /\ builderUnchanged

(***************************************************************************)
(* OrderDetailsPage (dashboard/orders/[id]/page.tsx).  Every handler reads *)
(* `order` and `estimatedTime` of the render it was created in; the        *)
(* request carries them as m.order and m.time.                             *)
(***************************************************************************)
DetailButtons(status) ==
  CASE status = "pending" -> {"cancelled"}
    [] status = "confirmed" -> {"preparing"}
    [] status = "preparing" -> {"ready"}
    [] status = "ready" -> {"delivered"}
    [] OTHER -> {}

DetailActive == ~detailsPage.isLoading /\ detailsPage.order # NullOrder

\* the answer to the fetchOrder effect run on mount
Detail_fetchOrderResponse(m) ==
  /\ m \in Responses("detail") /\ m.handler = "fetch"
  /\ Receive(m)
  /\ IF m.phase = "ok"
     THEN LET orderData == m.body[m.id]
          IN /\ notice' = ""
             /\ detailsPage' =
               [detailsPage EXCEPT
                  !.order = orderData,
                  !.estimatedTime =
                     IF Truthy(orderData.estimated_preparation_time)
                     THEN orderData.estimated_preparation_time[1]
                     ELSE detailsPage.estimatedTime,
                  !.isLoading = FALSE]
     ELSE IF m.phase = "empty"
          THEN \* normalizeOrder("") is { order_items: [] }, which is truthy
               /\ detailsPage' = [detailsPage EXCEPT !.order = BlankOrder, !.isLoading = FALSE]
               /\ notice' = ""
          ELSE /\ detailsPage' = [detailsPage EXCEPT !.isLoading = FALSE]
               /\ notice' = "Failed to load order details"
  /\ UNCHANGED << orderStore, everConfirmed, ordersPage >>
  /\ builderUnchanged

\* Confirm Order (opens the time form) and the form's Cancel button
Detail_setIsConfirmingOrder(value) ==
  /\ DetailActive
  /\ detailsPage.order.status = "pending"
  /\ detailsPage.isConfirmingOrder # value
  /\ detailsPage' = [detailsPage EXCEPT !.isConfirmingOrder = value]
  /\ UNCHANGED << orderStore, everConfirmed, ordersPage, net >>
  /\ builderUnchanged /\ notice' = ""

\* a time field is shown by the confirm form and by the confirmed-state controls
Detail_setEstimatedTime(text) ==
  /\ DetailActive
  /\ \/ detailsPage.order.status = "pending" /\ detailsPage.isConfirmingOrder
     \/ detailsPage.order.status = "confirmed"
  /\ detailsPage' = [detailsPage EXCEPT !.estimatedTime = ParseIntOr(text, 0)]
  /\ UNCHANGED << orderStore, everConfirmed, ordersPage, net >>
  /\ builderUnchanged /\ notice' = ""

Detail_handleUpdateStatus(newStatus) ==
  /\ DetailActive /\ CanSend
  /\ newStatus \in DetailButtons(detailsPage.order.status)
  /\ detailsPage.order.status = "pending" => ~detailsPage.isConfirmingOrder
  /\ Send(Message("detail", "handleUpdateStatus", orderId, newStatus, NoTime, detailsPage.order))
  /\ UNCHANGED << orderStore, everConfirmed, ordersPage, detailsPage >>
  /\ builderUnchanged /\ notice' = ""

\* Detail_handleUpdateStatusResponse with setOrder moved out of the try block
Detail_handleUpdateStatusResponseNoTry(m) ==
  /\ m \in Responses("detail") /\ m.handler = "handleUpdateStatus"
  /\ Receive(m)
  /\ detailsPage' = [detailsPage EXCEPT !.order = [m.order EXCEPT !.status = m.status]]
  /\ notice' = IF m.phase = "ok" THEN "Order updated" ELSE "Failed to update order status"
  /\ UNCHANGED << orderStore, everConfirmed, ordersPage >>
  /\ builderUnchanged

Detail_handleUpdateStatusResponse(m) ==
  /\ m \in Responses("detail") /\ m.handler = "handleUpdateStatus"
  /\ Receive(m)
  /\ IF m.phase = "ok"
     THEN /\ detailsPage' = [detailsPage EXCEPT !.order = [m.order EXCEPT !.status = m.status]]
          /\ notice' = "Order updated"
     ELSE UNCHANGED detailsPage /\ notice' = "Failed to update order status"
  /\ UNCHANGED << orderStore, everConfirmed, ordersPage >>
  /\ builderUnchanged

Detail_handleConfirmWithTime ==
  /\ DetailActive /\ CanSend
  /\ detailsPage.order.status = "pending" /\ detailsPage.isConfirmingOrder
  /\ detailsPage' = [detailsPage EXCEPT !.isLoading = TRUE]
  /\ Send(Message("detail", "handleConfirmWithTime", orderId, "confirmed",
                  << detailsPage.estimatedTime >>, detailsPage.order))
  /\ UNCHANGED << orderStore, everConfirmed, ordersPage >>
  /\ builderUnchanged /\ notice' = ""

Detail_handleConfirmWithTimeResponse(m) ==
  /\ m \in Responses("detail") /\ m.handler = "handleConfirmWithTime"
  /\ Receive(m)
  /\ IF m.phase = "ok"
     THEN /\ detailsPage' =
               [detailsPage EXCEPT
                  !.order = [m.order EXCEPT !.status = "confirmed",
                                            !.estimated_preparation_time = m.time],
                  !.isConfirmingOrder = FALSE,
                  !.isLoading = FALSE]
          /\ notice' = "Order confirmed"
     ELSE /\ detailsPage' = [detailsPage EXCEPT !.isLoading = FALSE]
          /\ notice' = "Failed to confirm order"
  /\ UNCHANGED << orderStore, everConfirmed, ordersPage >>
  /\ builderUnchanged

\* Detail_handleUpdateEstimatedTime with the Update button shown for every status
Detail_handleUpdateEstimatedTimeAnyStatus ==
  /\ DetailActive /\ CanSend
  /\ Send(Message("detail", "handleUpdateEstimatedTime", orderId, "",
                  << detailsPage.estimatedTime >>, detailsPage.order))
  /\ UNCHANGED << orderStore, everConfirmed, ordersPage, detailsPage >>
  /\ builderUnchanged /\ notice' = ""

\* the Update button of the confirmed-state controls
Detail_handleUpdateEstimatedTime ==
  /\ DetailActive /\ CanSend
  /\ detailsPage.order.status = "confirmed"
  /\ Send(Message("detail", "handleUpdateEstimatedTime", orderId, "",
                  << detailsPage.estimatedTime >>, detailsPage.order))
  /\ UNCHANGED << orderStore, everConfirmed, ordersPage, detailsPage >>
  /\ builderUnchanged /\ notice' = ""

Detail_handleUpdateEstimatedTimeResponse(m) ==
  /\ m \in Responses("detail") /\ m.handler = "handleUpdateEstimatedTime"
  /\ Receive(m)
  /\ IF m.phase = "ok"
     THEN /\ detailsPage' =
               [detailsPage EXCEPT !.order = [m.order EXCEPT !.estimated_preparation_time = m.time]]
          /\ notice' = "Updated estimated preparation time"
     ELSE UNCHANGED detailsPage /\ notice' = "Failed to update estimated preparation time"
  /\ UNCHANGED << orderStore, everConfirmed, ordersPage >>
  /\ builderUnchanged

\* the dashboard home is not mounted
\* editingCustomer = null
NoCustomer == [name |-> << >>, phone |-> << >>]

\* the customers page before its first load: no dialog, an empty form
CustomersIdle ==
  [customers |-> {}, isLoading |-> TRUE, isEditDialogOpen |-> FALSE, editingCustomer |-> NoCustomer,
   customerForm |-> [name |-> << >>, phone |-> << >>], isSubmitting |-> FALSE]

\* no request has reached the users proxy routes
ProxyIdle ==
  [method |-> "", cookie |-> << >>, header |-> << >>, contacted |-> FALSE, forwarded |-> << >>,
   backend |-> [status |-> 0, json |-> FALSE], status |-> 0]

AppIdle ==
  /\ homePage = [orders |-> << >>, isLoading |-> TRUE]
  /\ storage = [token |-> "", user |-> [username |-> "", is_admin |-> FALSE]]
  /\ defaultAuth = ""
  /\ location = "/login"
  /\ auth = [user |-> [username |-> "", is_admin |-> FALSE], isLoading |-> FALSE]
  /\ wire = EmptyBag
  /\ settingsPage = [is_active |-> TRUE, isLoadingRestaurant |-> TRUE]
  /\ usersPage = [users |-> {}, isLoaded |-> FALSE]
  /\ restaurant = [is_active |-> TRUE]
  /\ menuPage = [menuItems |-> {}, addOns |-> {}, isLoading |-> TRUE]
  /\ customersPage = CustomersIdle
  /\ proxy = ProxyIdle

\* no order view is mounted
OrdersIdle ==
  /\ orderStore = [i \in {} |-> NullOrder]
  /\ everConfirmed = {}
  /\ ordersPage = [orders |-> << >>, isLoading |-> FALSE, confirmingOrderId |-> 0,
                   estimatedTime |-> 30]
  /\ detailsPage = [order |-> NullOrder, isLoading |-> FALSE, estimatedTime |-> 30,
                    isConfirmingOrder |-> FALSE]
  /\ net = EmptyBag

(***************************************************************************)
(* Specifications of the Order Builder.                                    *)
(***************************************************************************)
FilledName == << "A", "l" >>

FilledPhone == << "5", "5", "5", "-", "1", "2", "3", "-", "4", "5", "6", "7" >>

InitBuilder(v, menu, addons) ==
  /\ menuTable = menu
  /\ addOnTable = addons
  /\ variant = v
  /\ isLoading = TRUE
  /\ menuItems = {}
  /\ availableAddOns = {}
  /\ addOns = [c \in {} |-> {}]
  /\ selectedItems = << >>
  /\ totalAmount = 0
  /\ customerInfo = [name |-> << >>, phone |-> << >>]
  /\ specialInstructions = << >>
  /\ submitLoading = FALSE
  /\ modalItem = NullItem
  /\ modalQuantity = 1
  /\ modalSelectedAddOns = << >>
  /\ isAddOnSheetOpen = FALSE
  /\ selectedItemIndex = 0
  /\ selectedAddOns = << >>
  /\ timers = << >>
  /\ createReq = << >>
  /\ route = "create"
  /\ notice = ""
  /\ OrdersIdle
  /\ AppIdle

\* the operations of the modal variant on the cart
ModalCartNext ==
  \/ fetchMenuItems
  \/ \E menuItem \in menuItems : openAddItemModal(menuItem)
  \/ closeAddItemModal
  \/ \E delta \in {-1, 1} : setModalQuantity(delta)
  \/ \E ao \in availableAddOns : toggleModalAddOn(ao)
  \/ addModalItemToOrder
  \/ \E index \in 1..Len(selectedItems) : handleRemoveItem(index)
  \/ \E index \in 1..Len(selectedItems), delta \in {-1, 1} :
       handleUpdateQuantity(index, selectedItems[index].quantity + delta)

\* SpecCart: the cart of the modal variant as the rendered page drives it
InitCart == InitBuilder("modal", {Burger, Cola, Retired}, {Cheese, Ice})

SpecCart == InitCart /\ [][ModalCartNext]_vars

\* SpecHandlers: SpecCart and the two handlers the page defines without calling
HandlersNext ==
  \/ ModalCartNext
  \/ \E menuItem \in menuItems : handleAddItem(menuItem)
  \/ \E itemIndex \in 1..Len(selectedItems), ao \in availableAddOns : toggleAddOn(itemIndex, ao)

SpecHandlers == InitCart /\ [][HandlersNext]_vars

\* SpecSheet: the cart of the add-on-sheet variant
InitSheet == InitBuilder("sheet", {Burger, Cola, Retired}, {Cheese, Ice, Bacon})

SheetNext ==
  \/ Sheet_fetchMenuItems
  \/ \E menuItem \in menuItems : Sheet_handleAddItem(menuItem)
  \/ timerFires
  \/ \E index \in 1..Len(selectedItems) : openAddOnSheet(index)
  \/ \E addOn \in addOnTable : handleAddOnToggle(addOn)
  \/ confirmAddOns
  \/ closeAddOnSheet
  \/ \E index \in 1..Len(selectedItems) : Sheet_handleRemoveItem(index)
  \/ \E index \in 1..Len(selectedItems), delta \in {-1, 1} :
       Sheet_handleUpdateQuantity(index, selectedItems[index].quantity + delta)

SpecSheet == InitSheet /\ [][SheetNext]_vars

\* SpecOrder: the modal variant from loading to submission, the form filled by pasting
InitOrder == InitBuilder("modal", {Burger, Retired}, {Cheese})

OrderNext ==
  \/ ModalCartNext
  \/ handleCustomerInfoChange("name", FilledName)
  \/ handleCustomerInfoChange("phone", FilledPhone)
  \/ handleCreateOrder
  \/ \E ok \in BOOLEAN : createOrderResponse(ok)

SpecOrder == InitOrder /\ [][OrderNext]_vars

\* SpecForm: the customer form typed key by key, over a one-item menu
InitForm == InitBuilder("modal", {Cola}, {})

FormNext ==
  \/ fetchMenuItems
  \/ \E menuItem \in menuItems : openAddItemModal(menuItem)
  \/ closeAddItemModal
  \/ addModalItemToOrder
  \/ \E index \in 1..Len(selectedItems) : handleRemoveItem(index)
  \/ \E value \in NameInputs : handleCustomerInfoChange("name", value)
  \/ \E value \in PhoneEdits(customerInfo.phone) : handleCustomerInfoChange("phone", value)
  \/ handleCreateOrder
  \/ \E ok \in BOOLEAN : createOrderResponse(ok)

SpecForm == InitForm /\ [][FormNext]_vars

(***************************************************************************)
(* SpecOrders: one orders-list session and one order-detail session on the *)
(* same store.  Orders have been created pending, without a time; both     *)
(* views are mounted together and their first fetch is in flight.          *)
(***************************************************************************)
OrdersViews(listMounted, detailMounted) ==
  /\ menuTable = {} /\ addOnTable = {} /\ variant = "none"
  /\ isLoading = TRUE /\ menuItems = {} /\ availableAddOns = {}
  /\ addOns = [c \in {} |-> {}]
  /\ selectedItems = << >> /\ totalAmount = 0
  /\ customerInfo = [name |-> << >>, phone |-> << >>]
  /\ specialInstructions = << >>
  /\ submitLoading = FALSE
  /\ modalItem = NullItem /\ modalQuantity = 1 /\ modalSelectedAddOns = << >>
  /\ isAddOnSheetOpen = FALSE /\ selectedItemIndex = 0 /\ selectedAddOns = << >>
  /\ timers = << >> /\ createReq = << >> /\ route = "orders" /\ notice = ""
  /\ orderStore = [i \in OrderIds |-> [status |-> "pending", estimated_preparation_time |-> NoTime]]
  /\ everConfirmed = {}
  /\ ordersPage = [orders |-> << >>, isLoading |-> listMounted, confirmingOrderId |-> 0,
                   estimatedTime |-> 30]
  /\ detailsPage = [order |-> NullOrder, isLoading |-> detailMounted, estimatedTime |-> 30,
                    isConfirmingOrder |-> FALSE]
  /\ net = SetToBag({Message("list", "fetch", 0, "", NoTime, NullOrder) : x \in {y \in {1} : listMounted}}
                      \cup {Message("detail", "fetch", orderId, "", NoTime, NullOrder) :
                              x \in {y \in {1} : detailMounted}})

OrdersMounted(listMounted, detailMounted) == OrdersViews(listMounted, detailMounted) /\ AppIdle

Statuses == {"pending", "confirmed", "preparing", "ready", "delivered", "cancelled"}

ServerNext ==
  \/ \E m \in BagToSet(net) : serverAccepts(m)
  \/ \E m \in BagToSet(net) : requestFails(m)

\* OrdersPage with its time field left as the dialog opens it
ListNext ==
  \/ List_fetchOrders
  \/ \E m \in BagToSet(net) : List_fetchOrdersResponse(m)
  \/ \E id \in OrderIds, newStatus \in Statuses : List_handleUpdateStatus(id, newStatus)
  \/ \E m \in BagToSet(net) : List_handleUpdateStatusResponse(m)
  \/ \E id \in OrderIds : List_openConfirmDialog(id)
  \/ List_closeConfirmDialog
  \/ List_handleConfirmWithTime
  \/ \E m \in BagToSet(net) : List_handleConfirmWithTimeResponse(m)

\* OrderDetailsPage with its time field left as loaded
DetailNext ==
  \/ \E m \in BagToSet(net) : Detail_fetchOrderResponse(m)
  \/ \E value \in BOOLEAN : Detail_setIsConfirmingOrder(value)
  \/ \E newStatus \in Statuses : Detail_handleUpdateStatus(newStatus)
  \/ \E m \in BagToSet(net) : Detail_handleUpdateStatusResponse(m)
  \/ Detail_handleConfirmWithTime
  \/ \E m \in BagToSet(net) : Detail_handleConfirmWithTimeResponse(m)
  \/ Detail_handleUpdateEstimatedTime
  \/ \E m \in BagToSet(net) : Detail_handleUpdateEstimatedTimeResponse(m)

InitOrders == OrdersMounted(TRUE, TRUE)

OrdersNext == ServerNext \/ ListNext \/ DetailNext

SpecOrders == InitOrders /\ [][OrdersNext]_vars

\* SpecDetails: one order-detail session, its time field edited
InitDetails == OrdersMounted(FALSE, TRUE)

DetailsNext ==
  \/ ServerNext
  \/ DetailNext
  \/ \E text \in TimeInputs : Detail_setEstimatedTime(text)

SpecDetails == InitDetails /\ [][DetailsNext]_vars

\* SpecList: one orders-list session, its time field edited
InitList == OrdersMounted(TRUE, FALSE)

ListEditNext ==
  \/ ServerNext
  \/ ListNext
  \/ \E text \in TimeInputs : List_setEstimatedTime(text)

SpecList == InitList /\ [][ListEditNext]_vars

\* SpecCleared: both sessions, the time fields only ever cleared
ClearedNext ==
  \/ OrdersNext
  \/ List_setEstimatedTime(<< >>)
  \/ Detail_setEstimatedTime(<< >>)

SpecCleared == InitOrders /\ [][ClearedNext]_vars

(***************************************************************************)
(* Claims about the Order Builder.                                         *)
(***************************************************************************)
LineAddOnsTotal(item) == SumPrices(item.add_ons)

\* C1 (as claimed, SpecCart): every cart line has
\* total_price = quantity * (base_price + sum of its add-on prices).
C1_LineTotalPerUnit ==
  \A k \in 1..Len(selectedItems) :
    selectedItems[k].total_price =
      selectedItems[k].quantity * (selectedItems[k].base_price + LineAddOnsTotal(selectedItems[k]))

\* C2 (SpecOrder): totalAmount is the sum of total_price over the cart lines, and
\* every create-order payload carries the sum of the total_price of its own items.
C2_TotalAmountIsSum ==
  /\ totalAmount = SumTotals(selectedItems)
  /\ \A k \in 1..Len(createReq) :
       createReq[k].total_amount = SumTotals(createReq[k].order_items)

\* a payload in flight with two lines of different totals, one of them with an add-on,
\* after the cart has been edited again
C2_Witness ==
  /\ createReq # << >>
  /\ Len(createReq[1].order_items) = 2
  /\ createReq[1].order_items[1].add_ons # << >>
  /\ createReq[1].order_items[1].quantity = 2
  /\ createReq[1].order_items[1].total_price # createReq[1].order_items[2].total_price
  /\ selectedItems # createReq[1].order_items

AllDigits(s) == \A k \in 1..Len(s) : s[k] \in Digits

C10_SheetLineTotal ==
  \A k \in 1..Len(selectedItems) :
    selectedItems[k].total_price =
      selectedItems[k].quantity * selectedItems[k].base_price
        + selectedItems[k].quantity * LineAddOnsTotal(selectedItems[k])

(***************************************************************************)
(* Claims about the status lifecycle.                                      *)
(***************************************************************************)
Terminal == {"delivered", "cancelled"}

LifecycleEdges ==
  { << "pending", "confirmed" >>, << "confirmed", "preparing" >>, << "preparing", "ready" >>,
    << "ready", "delivered" >>, << "pending", "cancelled" >> }

\* the status-update requests put on the network by this step
IssuedStatusUpdates ==
  {m \in BagToSet(net') :
     /\ m.phase = "request"
     /\ m.handler \in {"handleUpdateStatus", "handleConfirmWithTime"}
     /\ CopiesIn(m, net') > CopiesIn(m, net)}

\* the status of order id in the view that issued m
LocalStatus(m) ==
  IF m.from = "list" THEN ordersPage.orders[m.id].status ELSE detailsPage.order.status

\* C3 (as claimed, SpecOrders): once the stored status of an order is delivered or
\* cancelled, no later request changes it.
C3_TerminalIsFinal ==
  [][\A i \in OrderIds :
       orderStore[i].status \in Terminal => orderStore'[i].status = orderStore[i].status]_vars

\* C4 (as claimed, SpecOrders): no status-update request is issued for an order
\* whose status in the issuing view is delivered or cancelled.
C4_NoRequestFromTerminal ==
  [][\A m \in IssuedStatusUpdates : LocalStatus(m) \notin Terminal]_vars

\* C5 (SpecOrders): the stored status never goes from pending directly to preparing,
\* ready or delivered, and a stored status of preparing was preceded by confirmed.
C5_NoSkipOfConfirmed ==
  /\ [](\A i \in OrderIds : orderStore[i].status = "preparing" => i \in everConfirmed)
  /\ [][\A i \in OrderIds :
          orderStore[i].status = "pending"
            => orderStore'[i].status \notin {"preparing", "ready", "delivered"}]_vars

\* the order is stored as preparing while the list view still shows it pending
C5_Witness ==
  /\ orderStore[orderId].status = "preparing"
  /\ orderId \in DOMAIN ordersPage.orders
  /\ ordersPage.orders[orderId].status = "pending"

\* C6 (as claimed, SpecOrders): every change of a stored status follows an edge of
\* the lifecycle.
C6_OnlyLifecycleEdges ==
  [][\A i \in OrderIds :
       orderStore'[i].status # orderStore[i].status
         => << orderStore[i].status, orderStore'[i].status >> \in LifecycleEdges]_vars

\* C7 (as claimed, SpecCleared): with the time field untouched or cleared, every
\* confirmation sends estimated_preparation_time 30 and the view records 30.
C7_DefaultTimeIs30 ==
  /\ \A m \in BagToSet(net) : m.handler = "handleConfirmWithTime" => m.time = << 30 >>
  /\ detailsPage.order.status = "confirmed"
       => detailsPage.order.estimated_preparation_time = << 30 >>
  /\ \A i \in DOMAIN ordersPage.orders :
       ordersPage.orders[i].status = "confirmed"
         => ordersPage.orders[i].estimated_preparation_time = << 30 >>

UpdateHandlers == {"handleUpdateStatus", "handleConfirmWithTime", "handleUpdateEstimatedTime"}

FailureNotices ==
  {"Failed to update order status", "Failed to confirm order",
   "Failed to update estimated preparation time"}

\* the view that issued m handles its answer
HandlesAnswer(m) ==
  \/ List_handleUpdateStatusResponse(m)
  \/ List_handleConfirmWithTimeResponse(m)
  \/ Detail_handleUpdateStatusResponse(m)
  \/ Detail_handleConfirmWithTimeResponse(m)
  \/ Detail_handleUpdateEstimatedTimeResponse(m)

mockOrders == << "pending", "confirmed", "delivered" >>

\* buttons of a row of the dashboard home
HomeButtons(status) == IF status = "pending" THEN {"confirmed", "cancelled"} ELSE {}

\* the fetchData effect run on mount: no request, the built-in orders are stored
Home_fetchData ==
  /\ homePage.isLoading
  /\ homePage' = [orders |-> mockOrders, isLoading |-> FALSE]
  /\ notice' = ""
  /\ UNCHANGED << builderVars, ordersVars, sessionVars, wire, pagesVars, restaurant >>

\* the orderApi.updateStatus call is commented out: the rows are updated at once
Home_handleUpdateStatus(id, newStatus) ==
  /\ ~homePage.isLoading
  /\ id \in DOMAIN homePage.orders
  /\ newStatus \in HomeButtons(homePage.orders[id])
  /\ homePage' = [homePage EXCEPT !.orders[id] = newStatus]
  /\ notice' = "Order updated"
  /\ UNCHANGED << builderVars, ordersVars, sessionVars, wire, pagesVars, restaurant >>

HomeNext ==
  \/ Home_fetchData
  \/ \E id \in DOMAIN homePage.orders, newStatus \in Statuses : Home_handleUpdateStatus(id, newStatus)

\* SpecDashboard: the dashboard home, an orders-list session and an order-detail session
InitDashboard == OrdersViews(TRUE, TRUE) /\ AppIdle

DashboardNext == OrdersNext \/ HomeNext

SpecDashboard == InitDashboard /\ [][DashboardNext]_vars

\* a successful answer addressed to view `from` is taken off the network by this step
AnswerResolved(from) ==
  \E m \in BagToSet(net) : m.from = from /\ m.phase = "ok" /\ net' = net (-) SetToBag({m})

\* C11 (as claimed, SpecDashboard): in the dashboard home, the orders list and the
\* order detail, the status a view holds for an order changes only in a step that
\* resolves a successful answer to a request of that view.
C11_StatusChangesAfterResponse ==
  [][/\ (\E i \in DOMAIN homePage.orders : homePage'.orders[i] # homePage.orders[i])
          => AnswerResolved("home")
     /\ (\E i \in DOMAIN ordersPage.orders : ordersPage'.orders[i].status # ordersPage.orders[i].status)
          => AnswerResolved("list")
     /\ (detailsPage.order # NullOrder /\ detailsPage'.order.status # detailsPage.order.status)
          => AnswerResolved("detail")]_vars

(***************************************************************************)
(* Claims about validation of the create-order form.                       *)
(***************************************************************************)
\* SpecValidate: SpecForm with the special-instructions field edited as well
ValidateNext ==
  \/ FormNext
  \/ \E value \in NoteInputs : setSpecialInstructions(value)

SpecValidate == InitForm /\ [][ValidateNext]_vars

\* C12 (SpecValidate): every create-order request carries a name that is not blank
\* and at least one line; and a submission that fails validation sends nothing and
\* leaves the cart, the customer fields and the special instructions as they were.
C12_ValidationBlocksRequest ==
  /\ [](\A k \in 1..Len(createReq) :
          Trim(createReq[k].customer_name) # << >> /\ createReq[k].order_items # << >>)
  /\ [][(handleCreateOrder /\ validateOrderData # "valid")
          => /\ createReq' = createReq
             /\ UNCHANGED << selectedItems, customerInfo, specialInstructions >>]_vars

\* a submission with a blank name has just been refused; cart and notes are filled
C12_Witness ==
  /\ notice = "Customer name is required"
  /\ customerInfo.name = << " " >>
  /\ selectedItems # << >>
  /\ specialInstructions # << >>
  /\ createReq = << >>

(***************************************************************************)
(* The session: AuthProvider, the shared API client (api-service.ts) with  *)
(* its interceptors, the client local to the settings page and the fetch   *)
(* calls of the users page.                                                *)
(***************************************************************************)
NoToken == ""

NoUser == [username |-> "", is_admin |-> FALSE]

AdminUser == [username |-> "admin", is_admin |-> TRUE]

StaffUser == [username |-> "staff", is_admin |-> FALSE]

\* access tokens the server issues
Tokens == {"t1", "t2"}

DashboardPaths == {"/dashboard", "/dashboard/orders", "/dashboard/settings", "/dashboard/users"}

\* useAuth().isAuthenticated is !!user
isAuthenticated == auth.user # NoUser

\* isAdmin holding for every logged-in user
isAdminAnyUser == isAuthenticated

isAdmin == auth.user.is_admin

\* Authorization of a request of the shared client: the defaults of the instance,
\* overridden by the request interceptor when a token is stored
SharedAuthorization == IF storage.token # NoToken THEN storage.token ELSE defaultAuth

\* Authorization of a request of the settings client and of getAuthHeader()
LocalAuthorization == storage.token

AppCall(client, op, header, user) ==
  [client |-> client, op |-> op, auth |-> header, phase |-> "request", user |-> user,
   token |-> NoToken, flag |-> TRUE]

CanCall == BagCardinality(wire) < MaxInFlight

Answers(client, op) ==
  {m \in BagToSet(wire) : m.phase # "request" /\ m.client = client /\ m.op = op}

Take(m) == wire' = wire (-) SetToBag({m})

othersUnchanged == UNCHANGED << builderVars, ordersVars, homePage >>

\* onSubmit of the login form: login(email, password) of the AuthProvider
Login_onSubmit(who) ==
  /\ location = "/login" /\ ~auth.isLoading /\ CanCall
  /\ auth' = [auth EXCEPT !.isLoading = TRUE]
  /\ wire' = wire (+) SetToBag({AppCall("shared", "login", SharedAuthorization, who)})
  /\ notice' = ""
  /\ UNCHANGED << storage, defaultAuth, location, pagesVars, restaurant >>
  /\ othersUnchanged

\* the server answers a request: 200, 401 or another failure; a login is answered
\* with a token and the user record, PUT /restaurant/{id} replaces the stored record
\* and GET /restaurant is answered with it
serverAnswers(m, outcome) ==
  /\ m \in BagToSet(wire) /\ m.phase = "request"
  /\ restaurant' = IF m.op = "save" /\ outcome = "ok" THEN [is_active |-> m.flag] ELSE restaurant
  /\ \E t \in Tokens :
       wire' = (wire (-) SetToBag({m}))
                 (+) SetToBag({[m EXCEPT !.phase = outcome,
                                         !.token = IF m.op = "login" /\ outcome = "ok" THEN t ELSE NoToken,
                                         !.flag = restaurant'.is_active]})
  /\ notice' = ""
  /\ UNCHANGED << sessionVars, pagesVars >>
  /\ othersUnchanged

\* the answer to POST /users/login: authApi.login, AuthProvider.login, onSubmit
Login_response(m) ==
  /\ m \in Answers("shared", "login")
  /\ Take(m)
  /\ IF m.phase = "ok"
     THEN \* an answer without a user record stores the token only and does not navigate
          /\ storage' = [token |-> m.token, user |-> IF m.user # NoUser THEN m.user ELSE storage.user]
          /\ defaultAuth' = m.token
          /\ auth' = [user |-> IF m.user # NoUser THEN m.user ELSE auth.user, isLoading |-> FALSE]
          /\ location' = IF m.user # NoUser THEN "/dashboard" ELSE location
          /\ notice' = "Login successful!"
     ELSE /\ IF m.phase = "unauthorized"
             THEN storage' = [token |-> NoToken, user |-> NoUser] /\ defaultAuth' = NoToken
             ELSE UNCHANGED << storage, defaultAuth >>
          /\ auth' = [auth EXCEPT !.isLoading = FALSE]
          /\ notice' = "Login failed. Please check your credentials."
          /\ UNCHANGED location
  /\ UNCHANGED << pagesVars, restaurant >>
  /\ othersUnchanged

\* handleLogout with the default header of the shared client left in place
handleLogoutKeepsDefault ==
  /\ location \in DashboardPaths /\ isAuthenticated
  /\ storage' = [token |-> NoToken, user |-> NoUser]
  /\ auth' = [auth EXCEPT !.user = NoUser]
  /\ location' = "/login"
  /\ notice' = ""
  /\ UNCHANGED << defaultAuth, wire, pagesVars, restaurant >>
  /\ othersUnchanged

\* the Logout button of the dashboard layout
handleLogout ==
  /\ location \in DashboardPaths /\ isAuthenticated
  /\ storage' = [token |-> NoToken, user |-> NoUser]
  /\ defaultAuth' = NoToken
  /\ auth' = [auth EXCEPT !.user = NoUser]
  /\ location' = "/login"
  /\ notice' = ""
  /\ UNCHANGED << wire, pagesVars, restaurant >>
  /\ othersUnchanged

\* a page of the dashboard is opened and its mount effects run
visit(path) ==
  /\ path \in DashboardPaths /\ path # location /\ ~auth.isLoading
  /\ IF ~isAuthenticated
     THEN \* layout and users page: router.push("/login")
          /\ location' = "/login"
          /\ UNCHANGED << wire, pagesVars >>
     ELSE CASE path = "/dashboard/orders" ->
                 /\ CanCall
                 /\ location' = path
                 /\ wire' = wire (+) SetToBag({AppCall("shared", "orders", SharedAuthorization, NoUser)})
                 /\ UNCHANGED pagesVars
            [] path = "/dashboard/settings" ->
                 /\ isAdmin => CanCall
                 /\ location' = path
                 /\ settingsPage' = [is_active |-> TRUE, isLoadingRestaurant |-> TRUE]
                 /\ wire' = IF isAdmin
                            THEN wire (+) SetToBag({AppCall("settings", "restaurant",
                                                            LocalAuthorization, NoUser)})
                            ELSE wire
                 /\ UNCHANGED << usersPage, menuPage, customersPage, proxy >>
            [] path = "/dashboard/users" ->
                 IF ~isAdmin
                 THEN /\ location' = "/dashboard"
                      /\ UNCHANGED << wire, pagesVars >>
                 ELSE /\ CanCall
                      /\ location' = path
                      /\ usersPage' = [users |-> {}, isLoaded |-> TRUE]
                      /\ wire' = wire (+) SetToBag({AppCall("users", "fetchUsers",
                                                            LocalAuthorization, NoUser)})
                      /\ UNCHANGED << settingsPage, menuPage, customersPage, proxy >>
            [] OTHER ->
                 /\ location' = path
                 /\ UNCHANGED << wire, pagesVars >>
  /\ notice' = ""
  /\ UNCHANGED << storage, defaultAuth, auth, restaurant >>
  /\ othersUnchanged

\* the answer to a request of the shared client passes the response interceptor
Orders_response(m) ==
  /\ m \in Answers("shared", "orders")
  /\ IF m.phase = "unauthorized"
     THEN /\ storage' = [token |-> NoToken, user |-> NoUser]
          /\ defaultAuth' = NoToken
          /\ IF location # "/login"
             THEN \* window.location.href: the document is reloaded, its pending
                  \* callbacks are gone
                  /\ notice' = "Session expired. Please login again."
                  /\ location' = "/login"
                  /\ auth' = [user |-> NoUser, isLoading |-> FALSE]
                  /\ wire' = EmptyBag
             ELSE /\ notice' = "Failed to load orders"
                  /\ Take(m)
                  /\ UNCHANGED << location, auth >>
     ELSE /\ notice' = IF m.phase = "ok" THEN "" ELSE "Failed to load orders"
          /\ Take(m)
          /\ UNCHANGED sessionVars
  /\ UNCHANGED << pagesVars, restaurant >>
  /\ othersUnchanged

\* the answer to GET /restaurant of the settings page's own client
Settings_fetchResponse(m) ==
  /\ m \in Answers("settings", "restaurant")
  /\ Take(m)
  /\ IF m.phase = "ok"
     THEN /\ settingsPage' = [is_active |-> m.flag, isLoadingRestaurant |-> FALSE]
          /\ notice' = ""
     ELSE /\ settingsPage' = [settingsPage EXCEPT !.isLoadingRestaurant = FALSE]
          /\ notice' = "Failed to load restaurant settings"
  /\ UNCHANGED << sessionVars, usersPage, menuPage, customersPage, proxy, restaurant >>
  /\ othersUnchanged

\* the answer to fetch("/api/users")
Users_fetchResponse(m) ==
  /\ m \in Answers("users", "fetchUsers")
  /\ Take(m)
  /\ IF m.phase = "ok"
     THEN usersPage' = [usersPage EXCEPT !.users = {AdminUser, StaffUser}] /\ notice' = ""
     ELSE UNCHANGED usersPage /\ notice' = "Failed to fetch users"
  /\ UNCHANGED << sessionVars, settingsPage, menuPage, customersPage, proxy, restaurant >>
  /\ othersUnchanged

\* the application is loaded in the browser (first visit or reload): the shared
\* client takes its default header from the stored token, loadUser restores the
\* stored user and the redirect effect of the AuthProvider runs
openApp ==
  /\ wire' = EmptyBag
  /\ defaultAuth' = storage.token
  /\ auth' = [user |-> IF storage.token # NoToken THEN storage.user ELSE NoUser, isLoading |-> FALSE]
  /\ location' = IF storage.token # NoToken THEN "/dashboard" ELSE "/login"
  /\ notice' = ""
  /\ UNCHANGED << storage, pagesVars, restaurant >>
  /\ othersUnchanged

\* SpecSession: one browser session from the login page on
InitSession == OrdersViews(FALSE, FALSE) /\ AppIdle

SessionNext ==
  \/ \E who \in {AdminUser, StaffUser} : Login_onSubmit(who)
  \/ \E m \in BagToSet(wire), outcome \in {"ok", "unauthorized", "error"} : serverAnswers(m, outcome)
  \/ \E m \in BagToSet(wire) : Login_response(m)
  \/ handleLogout
  \/ openApp
  \/ \E path \in DashboardPaths : visit(path)
  \/ \E m \in BagToSet(wire) : Orders_response(m)
  \/ \E m \in BagToSet(wire) : Settings_fetchResponse(m)
  \/ \E m \in BagToSet(wire) : Users_fetchResponse(m)

SpecSession == InitSession /\ [][SessionNext]_vars

\* the answer m, a failure or the answer to a login, is delivered to its caller in
\* this step: the caller raises a toast
Handled(m) == CopiesIn(m, wire') < CopiesIn(m, wire) /\ notice' # ""

\* a 401 answer is delivered by this step
Handles401 == \E m \in BagToSet(wire) : m.phase = "unauthorized" /\ Handled(m)

\* C13 (as claimed, SpecSession): whenever a view handles a 401 answer, the stored
\* token and user are removed and the browser ends up on the login view.
C13_UnauthorizedClearsSession ==
  [][Handles401 => (storage' = [token |-> NoToken, user |-> NoUser] /\ location' = "/login")]_vars

(***************************************************************************)
(* The order-detail view opened on an id the order store does not hold.    *)
(***************************************************************************)
\* an order id that is not in the order store
missingId == 2

DetailPath == "/dashboard/orders/[id]"

\* /dashboard/orders/<id> is opened: the fetchOrder effect runs
Detail_open(id) ==
  /\ location # DetailPath /\ CanSend
  /\ location' = DetailPath
  /\ detailsPage' = [order |-> NullOrder, isLoading |-> TRUE, estimatedTime |-> 30,
                     isConfirmingOrder |-> FALSE]
  /\ Send(Message("detail", "fetch", id, "", NoTime, NullOrder))
  /\ notice' = ""
  /\ UNCHANGED << orderStore, everConfirmed, ordersPage >>
  /\ UNCHANGED << builderVars, homePage, storage, defaultAuth, auth, wire, pagesVars, restaurant >>

\* GET /orders/{id} for an id that is not stored: 404, or 200 with a null or an
\* empty body
serverMisses(m, outcome) ==
  /\ m \in Requests /\ m.handler = "fetch" /\ m.from = "detail" /\ m.id \notin OrderIds
  /\ Replace(m, [m EXCEPT !.phase = outcome])
  /\ UNCHANGED << orderStore, everConfirmed, ordersPage, detailsPage >>
  /\ builderUnchanged /\ notice' = ""

InitMissing == OrdersMounted(FALSE, FALSE)

MissingNext ==
  \/ \E id \in {orderId, missingId} : Detail_open(id)
  \/ \E m \in BagToSet(net) : m.id \in OrderIds /\ serverAccepts(m)
  \/ \E m \in BagToSet(net) : requestFails(m)
  \/ \E m \in BagToSet(net), outcome \in {"notfound", "null", "empty"} : serverMisses(m, outcome)
  \/ DetailNext

SpecMissing == InitMissing /\ [][MissingNext]_vars

\* the view takes the answer to its fetch of the missing order off the network
MissingAnswered ==
  \E m \in Responses("detail") :
     /\ m.handler = "fetch" /\ m.id = missingId
     /\ m.phase \in {"notfound", "null", "empty"}
     /\ Receive(m)

\* C14 (as claimed, SpecMissing): when the order-detail view gets the answer for an
\* order id that does not exist, it shows a notice and goes back to the orders list.
C14_MissingOrderGoesBack ==
  [][MissingAnswered => (notice' # "" /\ location' = "/dashboard/orders")]_vars

(***************************************************************************)
(* Claims about the dedicated time update.                                 *)
(***************************************************************************)
\* the POST /set-time/{id} requests put on the network by this step
IssuedTimeUpdates ==
  {m \in BagToSet(net') :
     /\ m.phase = "request"
     /\ m.handler = "handleUpdateEstimatedTime"
     /\ CopiesIn(m, net') > CopiesIn(m, net)}

\* C15 (SpecOrders): a time-update request is issued only for an order whose status
\* in the issuing view is confirmed.
C15_SetTimeOnlyWhenConfirmed ==
  [][\A m \in IssuedTimeUpdates : LocalStatus(m) = "confirmed"]_vars

\* a time-update request is on its way while the stored order has left confirmed
C15_Witness ==
  \E m \in Requests :
     /\ m.handler = "handleUpdateEstimatedTime"
     /\ detailsPage.order.status = "confirmed"
     /\ orderStore[orderId].status = "preparing"

(***************************************************************************)
(* Claims about repeating a status update.                                 *)
(***************************************************************************)
StatusUpdates ==
  {m \in BagToSet(net) : m.handler \in {"handleUpdateStatus", "handleConfirmWithTime"}}

\* the order already has what the status update m asks for
Reflects(order, m) ==
  /\ order.status = m.status
  /\ m.time # NoTime => order.estimated_preparation_time = m.time

\* the server carries out request m in this step
CarriedOut(m) ==
  /\ m.phase = "request"
  /\ CopiesIn([m EXCEPT !.phase = "ok"], net') > CopiesIn([m EXCEPT !.phase = "ok"], net)

\* the issuing view handles the successful answer m in this step
HandledOk(m) == m.phase = "ok" /\ CopiesIn(m, net') < CopiesIn(m, net)

\* the copy of the order of m in the view that issued m
LocalOrder(m) ==
  IF m.from = "list"
  THEN IF m.id \in DOMAIN ordersPage.orders THEN ordersPage.orders[m.id] ELSE NullOrder
  ELSE detailsPage.order

IssuedShared ==
  {m \in BagToSet(wire') :
     /\ m.client = "shared" /\ m.phase = "request"
     /\ CopiesIn(m, wire') > CopiesIn(m, wire)}

\* C17 (SpecSession): a request of the shared client carries the token stored when
\* it is sent, and no Authorization header when no token is stored; a successful
\* login stores the token it was answered with, and the end of the session (logout,
\* or a 401 answer to a request of the shared client) leaves no token stored.
C17_AuthorizationIsStoredToken ==
  [][/\ \A m \in IssuedShared : m.auth = storage.token
     /\ \A m \in Answers("shared", "login") :
          (m.phase = "ok" /\ Handled(m)) => storage'.token = m.token
     /\ \A m \in BagToSet(wire) :
          (m.client = "shared" /\ m.phase = "unauthorized" /\ Handled(m)) => storage'.token = NoToken
     /\ (isAuthenticated /\ ~isAuthenticated') => storage'.token = NoToken]_vars

\* a login request sent without a header is on its way beside an answer to a request
\* that carried a token: the session was ended in between
C17_Witness ==
  /\ storage.token = NoToken
  /\ \E m \in BagToSet(wire) : m.client = "shared" /\ m.op = "login" /\ m.phase = "request"
                                 /\ m.auth = NoToken
  /\ \E m \in BagToSet(wire) : m.client = "shared" /\ m.op = "orders" /\ m.auth \in Tokens

\* the user-list and restaurant-settings requests put on the network by this step
IssuedAdminOnly ==
  {m \in BagToSet(wire') :
     /\ m.client \in {"users", "settings"} /\ m.phase = "request"
     /\ CopiesIn(m, wire') > CopiesIn(m, wire)}

\* C18 (SpecSession): a user-list request or a restaurant-settings request is sent
\* only while the logged-in user is an admin; opening the users page takes a
\* non-admin to the dashboard and a visitor who is not logged in to the login page.
C18_AdminDataOnlyForAdmins ==
  [][/\ \A m \in IssuedAdminOnly : auth.user.is_admin
     /\ location' = "/dashboard/users" => auth'.user.is_admin
     /\ (auth.user = NoUser /\ auth'.user = NoUser) => location' = "/login"]_vars

\* a non-admin has the settings page open and no restaurant request was sent for it,
\* while the user-list request of the admin logged in before is still on its way
C18_Witness ==
  /\ auth.user = StaffUser
  /\ location = "/dashboard/settings"
  /\ \E m \in BagToSet(wire) : m.client = "users"
  /\ \A m \in BagToSet(wire) : m.client # "settings"

(***************************************************************************)
(* The restaurant tab of the settings page and the gate on new orders.     *)
(***************************************************************************)
\* the restaurant tab is rendered: an admin, the settings loaded
RestaurantTabActive ==
  location = "/dashboard/settings" /\ isAdmin /\ ~settingsPage.isLoadingRestaurant

\* the Restaurant Active Status switch
Settings_handleToggleActive(value) ==
  /\ RestaurantTabActive
  /\ value # settingsPage.is_active
  /\ settingsPage' = [settingsPage EXCEPT !.is_active = value]
  /\ notice' = ""
  /\ UNCHANGED << sessionVars, wire, usersPage, menuPage, customersPage, proxy, restaurant >>
  /\ othersUnchanged

\* the Save Restaurant Settings button
Settings_handleSaveRestaurantSettings ==
  /\ RestaurantTabActive /\ CanCall
  /\ wire' = wire (+) SetToBag({[AppCall("settings", "save", LocalAuthorization, NoUser)
                                   EXCEPT !.flag = settingsPage.is_active]})
  /\ notice' = ""
  /\ UNCHANGED << sessionVars, pagesVars, restaurant >>
  /\ othersUnchanged

Settings_saveResponse(m) ==
  /\ m \in Answers("settings", "save")
  /\ Take(m)
  /\ notice' = IF m.phase = "ok" THEN "Restaurant settings saved successfully"
               ELSE "Failed to save restaurant settings"
  /\ UNCHANGED << sessionVars, pagesVars, restaurant >>
  /\ othersUnchanged

\* createOrderResponse with no check of the restaurant record
Open_createOrderResponse(ok) == createOrderResponse(ok)

\* POST /orders is refused while the stored restaurant record has is_active off
Gate_createOrderResponse(ok) == (ok => restaurant.is_active) /\ createOrderResponse(ok)

\* SpecGate: an admin at the settings page, a staff member at the Order Builder
InitGate == InitBuilder("modal", {Cola}, {})

GateNext ==
  \/ fetchMenuItems
  \/ \E menuItem \in menuItems : openAddItemModal(menuItem)
  \/ addModalItemToOrder
  \/ handleCustomerInfoChange("name", FilledName)
  \/ handleCustomerInfoChange("phone", FilledPhone)
  \/ handleCreateOrder
  \/ \E ok \in BOOLEAN : Gate_createOrderResponse(ok)
  \/ Login_onSubmit(AdminUser)
  \/ \E m \in BagToSet(wire), outcome \in {"ok", "error"} : serverAnswers(m, outcome)
  \/ \E m \in BagToSet(wire) : Login_response(m)
  \/ visit("/dashboard/settings")
  \/ \E m \in BagToSet(wire) : Settings_fetchResponse(m)
  \/ \E value \in BOOLEAN : Settings_handleToggleActive(value)
  \/ Settings_handleSaveRestaurantSettings
  \/ \E m \in BagToSet(wire) : Settings_saveResponse(m)

SpecGate == InitGate /\ [][GateNext]_vars

builderPageUnchanged ==
  UNCHANGED << variant, isLoading, menuItems, availableAddOns, addOns, selectedItems, totalAmount,
               customerInfo, submitLoading, modalItem, modalQuantity, modalSelectedAddOns,
               isAddOnSheetOpen, selectedItemIndex, selectedAddOns, timers, createReq, route,
               specialInstructions >>

menuOthersUnchanged ==
  UNCHANGED << ordersVars, homePage, sessionVars, settingsPage, usersPage, customersPage, proxy,
               restaurant >>

\* a request of menuApi / addOnApi; kind is "item" or "addon"
MenuCall(op, kind, id, body) ==
  [client |-> "shared", op |-> op, kind |-> kind, id |-> id, body |-> body, phase |-> "request",
   record |-> NullItem, items |-> {}, addons |-> {}]

\* the list of the page that holds the records of a kind
MenuList(page, kind) == IF kind = "item" THEN page.menuItems ELSE page.addOns

\* the fetchMenuData effect run on mount: GET /menu and GET /addons awaited together
Menu_fetchMenuData ==
  /\ menuPage.isLoading /\ wire = EmptyBag
  /\ wire' = SetToBag({MenuCall("fetchMenuData", "", 0, << >>)})
  /\ notice' = ""
  /\ UNCHANGED << menuPage, menuTable, addOnTable >>
  /\ builderPageUnchanged /\ menuOthersUnchanged

Menu_fetchMenuDataResponse(m) ==
  /\ m \in Answers("shared", "fetchMenuData")
  /\ Take(m)
  /\ IF m.phase = "ok"
     THEN /\ menuPage' = [menuItems |-> m.items, addOns |-> m.addons, isLoading |-> FALSE]
          /\ notice' = ""
     ELSE /\ menuPage' = [menuPage EXCEPT !.isLoading = FALSE]
          /\ notice' = "Failed to load menu data"
  /\ UNCHANGED << menuTable, addOnTable >>
  /\ builderPageUnchanged /\ menuOthersUnchanged

\* toggleItemAvailability / toggleAddonAvailability sending the whole record
Menu_toggleAvailabilityFullRecord(kind, id, currentStatus) ==
  /\ ~menuPage.isLoading /\ CanCall
  /\ \E r \in MenuList(menuPage, kind) :
       /\ r.id = id /\ r.is_available = currentStatus
       /\ wire' = wire (+) SetToBag({MenuCall("toggle", kind, id,
                                              [r EXCEPT !.is_available = ~currentStatus])})
  /\ notice' = ""
  /\ UNCHANGED << menuPage, menuTable, addOnTable >>
  /\ builderPageUnchanged /\ menuOthersUnchanged

\* the availability button of a row: toggleItemAvailability(item.id, item.is_available),
\* toggleAddonAvailability(addon.id, addon.is_available)
Menu_toggleAvailability(kind, id, currentStatus) ==
  /\ ~menuPage.isLoading /\ CanCall
  /\ \E r \in MenuList(menuPage, kind) : r.id = id /\ r.is_available = currentStatus
  /\ wire' = wire (+) SetToBag({MenuCall("toggle", kind, id, [is_available |-> ~currentStatus])})
  /\ notice' = ""
  /\ UNCHANGED << menuPage, menuTable, addOnTable >>
  /\ builderPageUnchanged /\ menuOthersUnchanged

Menu_toggleAvailabilityResponse(m) ==
  /\ m \in Answers("shared", "toggle")
  /\ Take(m)
  /\ IF m.phase = "ok"
     THEN /\ menuPage' =
               IF m.kind = "item"
               THEN [menuPage EXCEPT !.menuItems =
                       {IF item.id = m.id THEN m.record ELSE item : item \in menuPage.menuItems}]
               ELSE [menuPage EXCEPT !.addOns =
                       {IF addon.id = m.id THEN m.record ELSE addon : addon \in menuPage.addOns}]
          /\ notice' = IF m.kind = "item" THEN "Item availability updated"
                       ELSE "Add-on availability updated"
     ELSE /\ UNCHANGED menuPage
          /\ notice' = IF m.kind = "item" THEN "Failed to update item availability"
                       ELSE "Failed to update add-on availability"
  /\ UNCHANGED << menuTable, addOnTable >>
  /\ builderPageUnchanged /\ menuOthersUnchanged

\* the stored record r with the fields of an update body written over it
Merged(r, body) == [f \in DOMAIN r |-> IF f \in DOMAIN body THEN body[f] ELSE r[f]]

\* PUT /menu/{id} and PUT /addons/{id} write the fields of the body and answer with
\* the stored record; GET /menu and GET /addons answer with the tables
Menu_serverAnswers(m, outcome) ==
  /\ m \in BagToSet(wire) /\ m.phase = "request"
  /\ LET table == IF m.kind = "item" THEN menuTable ELSE addOnTable
         updated == {IF r.id = m.id THEN Merged(r, m.body) ELSE r : r \in table}
     IN IF m.op = "toggle" /\ outcome = "ok"
        THEN /\ \E r \in table : r.id = m.id
             /\ menuTable' = IF m.kind = "item" THEN updated ELSE menuTable
             /\ addOnTable' = IF m.kind = "item" THEN addOnTable ELSE updated
             /\ wire' = (wire (-) SetToBag({m}))
                          (+) SetToBag({[m EXCEPT !.phase = "ok",
                                                  !.record = CHOOSE r \in updated : r.id = m.id]})
        ELSE /\ UNCHANGED << menuTable, addOnTable >>
             /\ wire' = (wire (-) SetToBag({m}))
                          (+) SetToBag({[m EXCEPT !.phase = outcome,
                                                  !.items = IF outcome = "ok" THEN menuTable ELSE {},
                                                  !.addons = IF outcome = "ok" THEN addOnTable ELSE {}]})
  /\ notice' = ""
  /\ UNCHANGED menuPage
  /\ builderPageUnchanged /\ menuOthersUnchanged

\* SpecMenu: one MenuPage session
InitMenu == InitBuilder("modal", {Burger, Retired}, {Cheese, Bacon})

MenuNext ==
  \/ Menu_fetchMenuData
  \/ \E m \in BagToSet(wire) : Menu_fetchMenuDataResponse(m)
  \/ \E kind \in {"item", "addon"}, id \in {1, 3}, currentStatus \in BOOLEAN :
       Menu_toggleAvailability(kind, id, currentStatus)
  \/ \E m \in BagToSet(wire) : Menu_toggleAvailabilityResponse(m)
  \/ \E m \in BagToSet(wire), outcome \in {"ok", "error"} : Menu_serverAnswers(m, outcome)

SpecMenu == InitMenu /\ [][MenuNext]_vars

\* the availability updates put on the network by this step
IssuedToggles ==
  {m \in BagToSet(wire') :
     /\ m.op = "toggle" /\ m.phase = "request"
     /\ CopiesIn(m, wire') > CopiesIn(m, wire)}

\* the records of a list other than the one with the given id
Others(list, id) == {r \in list : r.id # id}

\* C20 (SpecMenu): an availability update carries only is_available, the negation of
\* the value the row shows; its successful answer replaces that record alone in the
\* local lists, and its failure leaves the local lists as they are.
C20_ToggleTouchesOneRecord ==
  [][/\ \A m \in IssuedToggles :
          /\ DOMAIN m.body = {"is_available"}
          /\ \E r \in MenuList(menuPage, m.kind) :
               r.id = m.id /\ m.body.is_available = ~r.is_available
     /\ \A m \in Answers("shared", "toggle") :
          Handled(m) =>
            IF m.phase = "ok"
            THEN /\ Others(menuPage'.menuItems, IF m.kind = "item" THEN m.id ELSE 0)
                      = Others(menuPage.menuItems, IF m.kind = "item" THEN m.id ELSE 0)
                 /\ Others(menuPage'.addOns, IF m.kind = "addon" THEN m.id ELSE 0)
                      = Others(menuPage.addOns, IF m.kind = "addon" THEN m.id ELSE 0)
                 /\ \A r \in MenuList(menuPage', m.kind) : r.id = m.id => r = m.record
            ELSE menuPage' = menuPage]_vars

\* an item was switched off on the page while the add-on with the same id and every
\* other record are as they were loaded
C20_Witness ==
  /\ notice = "Item availability updated"
  /\ menuPage.menuItems = {[Burger EXCEPT !.is_available = FALSE], Retired}
  /\ menuPage.addOns = {Cheese, Bacon}

(***************************************************************************)
(* Both variants of the Order Builder, from loading to submission.         *)
(***************************************************************************)
InitBuilders == \E v \in {"modal", "sheet"} : InitBuilder(v, {Burger, Retired}, {})

\* the operations of either variant that add, change or remove a line, and the submission
BuildersNext ==
  \/ fetchMenuItems
  \/ \E menuItem \in menuItems : openAddItemModal(menuItem)
  \/ \E delta \in {-1, 1} : setModalQuantity(delta)
  \/ addModalItemToOrder
  \/ \E index \in 1..Len(selectedItems) : handleRemoveItem(index)
  \/ \E index \in 1..Len(selectedItems), delta \in {-1, 1} :
       handleUpdateQuantity(index, selectedItems[index].quantity + delta)
  \/ Sheet_fetchMenuItems
  \/ \E menuItem \in menuItems : Sheet_handleAddItem(menuItem)
  \/ timerFires
  \/ \E index \in 1..Len(selectedItems) : Sheet_handleRemoveItem(index)
  \/ \E index \in 1..Len(selectedItems), delta \in {-1, 1} :
       Sheet_handleUpdateQuantity(index, selectedItems[index].quantity + delta)
  \/ handleCustomerInfoChange("name", FilledName)
  \/ handleCustomerInfoChange("phone", FilledPhone)
  \/ handleCreateOrder
  \/ \E ok \in BOOLEAN : createOrderResponse(ok)

SpecBuilders == InitBuilders /\ [][BuildersNext]_vars

\* C21 (SpecBuilders): every line of the cart and every item of a submitted order has
\* a quantity of at least 1, and so has the quantity shown by the add-item modal.
C21_QuantityAtLeastOne ==
  /\ \A k \in 1..Len(selectedItems) : selectedItems[k].quantity >= 1
  /\ \A r \in 1..Len(createReq) :
       \A k \in 1..Len(createReq[r].order_items) : createReq[r].order_items[k].quantity >= 1
  /\ modalQuantity >= 1

\* an order of one line at quantity 1 has been submitted
C21_Witness ==
  /\ createReq # << >>
  /\ Len(createReq[1].order_items) = 1
  /\ createReq[1].order_items[1].quantity = 1


\* C22 (SpecHandlers): every line of the modal variant's cart carries
\* total_price = quantity * base_price + the sum of its add-on prices, the add-ons
\* counted once for the line, whichever handler wrote the line last.
C22_LineTotalAddOnsOnce ==
  \A k \in 1..Len(selectedItems) :
    selectedItems[k].total_price =
      selectedItems[k].quantity * selectedItems[k].base_price
        + SumPrices(selectedItems[k].add_ons)

\* a line of quantity 2 with an add-on next to a line of quantity 1 without one
C22_Witness ==
  \E k, j \in 1..Len(selectedItems) :
    /\ selectedItems[k].quantity = 2 /\ selectedItems[k].add_ons # << >>
    /\ selectedItems[j].quantity = 1 /\ selectedItems[j].add_ons = << >>


(***************************************************************************)
(* Customers page (dashboard/customers/page.tsx): the edit dialog.         *)
(***************************************************************************)
\* formatPhoneNumber: XXX-XXX-XXXX for 10 digits, the original string otherwise
formatPhoneNumber(phone) ==
  LET digits == StripNonDigits(phone) IN
    IF Len(digits) = 10
    THEN Slice(digits, 0, 3) \o << "-" >> \o Slice(digits, 3, 6) \o << "-" >>
         \o Slice(digits, 6, Len(digits))
    ELSE phone

\* the customer records GET /customers may return
Ann == [name |-> << "A", "n" >>, phone |-> << "5", "5", "5", "1", "2", "3", "4", "5", "6", "7" >>]

Bob == [name |-> << "B", "o" >>,
        phone |-> << "1", "5", "5", "5", "1", "2", "3", "4", "5", "6", "7" >>]

Cy == [name |-> << "C", "y" >>, phone |-> << "5", "5", "5", "-", "1", "2", "3" >>]

CustomerRecords == {Ann, Bob, Cy}

\* values the phone field of the dialog can receive from the keyboard (maxLength 12)
CustomerPhoneInputs == PastedPhones \cup {<< "5", "5", "5", "1", "2", "3" >>}

customersUnchanged ==
  UNCHANGED << builderVars, ordersVars, homePage, sessionVars, settingsPage, usersPage, menuPage,
               proxy, restaurant >>

\* a request of customerApi.update(phone, customerData)
CustomerCall(key, body) ==
  [client |-> "shared", op |-> "updateCustomer", key |-> key, body |-> body, phase |-> "request"]

\* fetchCustomers after its await: the list is replaced, or the failure is announced
Customers_fetchCustomersResponse(customersData, ok) ==
  /\ customersPage.isLoading
  /\ customersPage' =
       [customersPage EXCEPT !.isLoading = FALSE,
                             !.customers = IF ok THEN customersData ELSE @]
  /\ notice' = IF ok THEN "" ELSE "Failed to load customers"
  /\ UNCHANGED wire
  /\ customersUnchanged

handleEditClick(customer) ==
  /\ ~customersPage.isLoading /\ ~customersPage.isEditDialogOpen
  /\ customer \in customersPage.customers
  /\ customersPage' =
       [customersPage EXCEPT !.editingCustomer = customer,
                             !.customerForm = [name |-> customer.name,
                                               phone |-> formatPhoneNumber(customer.phone)],
                             !.isEditDialogOpen = TRUE]
  /\ notice' = ""
  /\ UNCHANGED wire
  /\ customersUnchanged

handleFormChange(name, value) ==
  /\ ~customersPage.isLoading /\ customersPage.isEditDialogOpen
  /\ customersPage' =
       [customersPage EXCEPT !.customerForm =
          IF name = "phone"
          THEN LET digits == StripNonDigits(value)
                   formattedPhone ==
                     IF Len(digits) <= 3 THEN digits
                     ELSE IF Len(digits) <= 6
                          THEN Slice(digits, 0, 3) \o << "-" >> \o Slice(digits, 3, Len(digits))
                          ELSE Slice(digits, 0, 3) \o << "-" >> \o Slice(digits, 3, 6)
                               \o << "-" >> \o Slice(digits, 6, 10)
               IN [@ EXCEPT !.phone = formattedPhone]
          ELSE [@ EXCEPT !.name = value]]
  /\ notice' = ""
  /\ UNCHANGED wire
  /\ customersUnchanged

\* the dialog's Cancel button and onOpenChange: setIsEditDialogOpen(false)
closeEditDialog ==
  /\ ~customersPage.isLoading /\ customersPage.isEditDialogOpen
  /\ customersPage' = [customersPage EXCEPT !.isEditDialogOpen = FALSE]
  /\ notice' = ""
  /\ UNCHANGED wire
  /\ customersUnchanged

\* handleSaveCustomer up to its await; the finally block of a rejected form runs at once
handleSaveCustomer ==
  /\ ~customersPage.isLoading /\ customersPage.isEditDialogOpen
  /\ ~customersPage.isSubmitting
  /\ customersPage.editingCustomer # NoCustomer
  /\ LET phoneDigits == StripNonDigits(customersPage.customerForm.phone) IN
       IF Trim(customersPage.customerForm.name) = << >>
       THEN /\ notice' = "Customer name is required"
            /\ UNCHANGED << customersPage, wire >>
       ELSE IF Len(phoneDigits) < 10
            THEN /\ notice' = "Please enter a valid phone number (10 digits required)"
                 /\ UNCHANGED << customersPage, wire >>
            ELSE /\ customersPage' = [customersPage EXCEPT !.isSubmitting = TRUE]
                 /\ wire' = wire (+) SetToBag({CustomerCall(customersPage.editingCustomer.phone,
                                                            [name |-> customersPage.customerForm.name,
                                                             phone |-> phoneDigits])})
                 /\ notice' = ""
  /\ customersUnchanged

\* handleSaveCustomer after its await: success closes the dialog and reloads the list
Customers_updateResponse(m, ok) ==
  /\ m \in BagToSet(wire) /\ m.op = "updateCustomer"
  /\ wire' = wire (-) SetToBag({m})
  /\ IF ok
     THEN /\ customersPage' = [customersPage EXCEPT !.isEditDialogOpen = FALSE,
                                                    !.isLoading = TRUE,
                                                    !.isSubmitting = FALSE]
          /\ notice' = "Customer updated successfully"
     ELSE /\ customersPage' = [customersPage EXCEPT !.isSubmitting = FALSE]
          /\ notice' = "Failed to update customer"
  /\ customersUnchanged

InitCustomers == OrdersViews(FALSE, FALSE) /\ AppIdle

CustomersNext ==
  \/ \E customersData \in SUBSET CustomerRecords, ok \in BOOLEAN :
       Customers_fetchCustomersResponse(customersData, ok)
  \/ \E customer \in CustomerRecords : handleEditClick(customer)
  \/ \E value \in {<< >>, FilledName} : handleFormChange("name", value)
  \/ \E value \in CustomerPhoneInputs : handleFormChange("phone", value)
  \/ closeEditDialog
  \/ handleSaveCustomer
  \/ \E m \in BagToSet(wire), ok \in BOOLEAN : Customers_updateResponse(m, ok)

SpecCustomers == InitCustomers /\ [][CustomersNext]_vars

\* C23 (as claimed, SpecCustomers): every customer update sent by the edit dialog
\* carries a phone of exactly 10 characters, all of them digits.
C23_UpdateCarriesTenDigits ==
  \A m \in BagToSet(wire) :
    m.op = "updateCustomer" =>
      /\ Len(m.body.phone) = 10
      /\ \A k \in 1..Len(m.body.phone) : m.body.phone[k] \in Digits


\* C24 (as claimed, SpecDetails): with one order-detail session as the only writer,
\* once no request or answer is in flight the view's copy of the order has the
\* status and the estimated_preparation_time the server stores.
C24_LocalReflectsAccepted ==
  (DetailActive /\ net = EmptyBag /\ orderId \in DOMAIN orderStore) =>
    /\ detailsPage.order.status = orderStore[orderId].status
    /\ detailsPage.order.estimated_preparation_time
         = orderStore[orderId].estimated_preparation_time


(***************************************************************************)
(* Route guarding: the redirect effects of AuthProvider and of the         *)
(* dashboard layout, run one navigation at a time.                         *)
(***************************************************************************)
\* POST /users/login answered with an access token and no user record
serverAnswersNoUser(m) ==
  /\ m \in BagToSet(wire) /\ m.phase = "request" /\ m.op = "login"
  /\ \E t \in Tokens :
       wire' = (wire (-) SetToBag({m}))
                 (+) SetToBag({[m EXCEPT !.phase = "ok", !.token = t, !.user = NoUser]})
  /\ notice' = ""
  /\ UNCHANGED << sessionVars, pagesVars, restaurant >>
  /\ othersUnchanged

\* the browser loads a URL of the app: AuthProvider mounts with isLoading true
loadPage(path) ==
  /\ wire' = EmptyBag
  /\ defaultAuth' = storage.token
  /\ auth' = [user |-> NoUser, isLoading |-> TRUE]
  /\ location' = path
  /\ notice' = ""
  /\ UNCHANGED << storage, pagesVars, restaurant >>
  /\ othersUnchanged

LoginInFlight == \E m \in BagToSet(wire) : m.op = "login"

\* the mount effect of AuthProvider
loadUser ==
  /\ auth.isLoading /\ ~LoginInFlight
  /\ auth' = [user |-> IF storage.token # NoToken THEN storage.user ELSE NoUser,
              isLoading |-> FALSE]
  /\ notice' = ""
  /\ UNCHANGED << storage, defaultAuth, location, wire, pagesVars, restaurant >>
  /\ othersUnchanged

\* authApi.isAuthenticated(): a token is stored
authApi_isAuthenticated == storage.token # NoToken

\* the redirect effect of AuthProvider
AuthProvider_redirect ==
  /\ ~auth.isLoading
  /\ \/ ~authApi_isAuthenticated /\ location \in DashboardPaths /\ location' = "/login"
     \/ authApi_isAuthenticated /\ location = "/login" /\ location' = "/dashboard"
  /\ notice' = ""
  /\ UNCHANGED << storage, defaultAuth, auth, wire, pagesVars, restaurant >>
  /\ othersUnchanged

\* the redirect effect of DashboardLayout
DashboardLayout_redirect ==
  /\ location \in DashboardPaths
  /\ ~auth.isLoading /\ ~isAuthenticated
  /\ location' = "/login"
  /\ notice' = ""
  /\ UNCHANGED << storage, defaultAuth, auth, wire, pagesVars, restaurant >>
  /\ othersUnchanged

InitGuard == OrdersViews(FALSE, FALSE) /\ AppIdle

\* what the person at the browser does
GuardUser ==
  \/ \E who \in {AdminUser, StaffUser} : Login_onSubmit(who)
  \/ handleLogout
  \/ \E path \in {"/login", "/dashboard"} : loadPage(path)

\* what the server and the effects do
GuardServer ==
  \/ \E m \in BagToSet(wire), outcome \in {"ok", "unauthorized", "error"} : serverAnswers(m, outcome)
  \/ \E m \in BagToSet(wire) : serverAnswersNoUser(m)

GuardEffects ==
  \/ \E m \in BagToSet(wire) : Login_response(m)
  \/ loadUser
  \/ AuthProvider_redirect
  \/ DashboardLayout_redirect

GuardNext == GuardUser \/ GuardServer \/ GuardEffects

SpecGuard == InitGuard /\ [][GuardNext]_vars

\* every request is answered, and every answer and every effect is run
SpecGuardFair == SpecGuard /\ WF_vars(GuardServer) /\ WF_vars(GuardEffects)

\* loading is over and neither redirect effect has anything to do
Resting ==
  /\ ~auth.isLoading
  /\ authApi_isAuthenticated => location \in DashboardPaths /\ isAuthenticated
  /\ ~authApi_isAuthenticated => location = "/login"

\* C25 (as claimed, SpecGuardFair): unless the person at the browser keeps acting,
\* the app comes to rest again and again: on a dashboard page with a stored token,
\* on the login page without one.
C25_GuardSettles == []<>Resting \/ []<><<GuardUser>>_vars


\* C26 (SpecBuilders): at most one create-order request is in flight, and
\* submitLoading is true exactly while one is.
C26_OneCreateInFlight ==
  /\ Len(createReq) <= 1
  /\ submitLoading <=> createReq # << >>

\* a request is in flight while the cart has been edited since it was sent
C26_Witness ==
  /\ Len(createReq) = 1 /\ submitLoading
  /\ route = "create"
  /\ selectedItems # createReq[1].order_items


\* C27 (as claimed, SpecDetails): every confirm request and every time-update request
\* carries an estimated_preparation_time that is an integer of at least 1.
C27_SentTimeAtLeastOne ==
  \A m \in BagToSet(net) :
    m.handler \in {"handleConfirmWithTime", "handleUpdateEstimatedTime"} =>
      m.time # NoTime /\ m.time[1] >= 1


\* SpecCatalog: either variant over a catalogue with a retired item and a retired add-on
InitCatalog == \E v \in {"modal", "sheet"} : InitBuilder(v, {Burger, Cola, Retired}, {Cheese, Ice, Bacon})

CatalogNext == ModalCartNext \/ SheetNext

SpecCatalog == InitCatalog /\ [][CatalogNext]_vars

\* the catalogue records a cart line and one of its add-ons were taken from
ItemOf(line) == {item \in menuTable : item.id = line.menu_item_id}

AddOnOf(snapshot) == {ao \in addOnTable : ao.id = snapshot.add_on_id}

\* C28 (as claimed, SpecCatalog): every cart line is of an available menu item, and
\* every add-on on it is available and of the category of the line's menu item.
C28_CartFromAvailableCatalog ==
  \A k \in 1..Len(selectedItems) :
    LET line == selectedItems[k] IN
      /\ \A item \in ItemOf(line) : item.is_available
      /\ \A j \in 1..Len(line.add_ons) :
           \A ao \in AddOnOf(line.add_ons[j]) :
             /\ ao.is_available
             /\ \A item \in ItemOf(line) : ao.category = item.category


(***************************************************************************)
(* The users proxy routes (app/api/users/route.ts, app/api/users/[id]/     *)
(* route.ts). A header or cookie value is a sequence of lexemes, the empty *)
(* sequence standing for an absent or empty value.                         *)
(***************************************************************************)
ProxyMethods == {"LIST", "POST", "GET", "PATCH", "DELETE"}

CookieValues == {<< >>, << "t1" >>, << "Bearer ", "t1" >>}

HeaderValues == {<< >>, << "Bearer ", "t2" >>, << "t2" >>, << "bearer ", "t2" >>}

\* what fetch can bring back: no answer at all (status 0), or a status and a body
\* that parses as JSON or does not
BackendAnswers ==
  {[status |-> 0, json |-> FALSE]}
    \cup [status : {200, 401, 404, 502}, json : BOOLEAN]

\* token.startsWith("Bearer ")
StartsWithBearer(token) == token # << >> /\ Head(token) = "Bearer "

\* const token = cookie || header; const authHeader = token ? (... ) : ""
AuthHeader(cookie, header) ==
  LET token == IF cookie # << >> THEN cookie ELSE header IN
    IF token = << >> THEN << >>
    ELSE IF StartsWithBearer(token) THEN token ELSE << "Bearer " >> \o token

\* response.ok
Ok(status) == status \in 200..299

\* one request through a route handler, from the cookie lookup to the answer
Users_route(method, cookie, header, bodyOk, backend) ==
  /\ method \in ProxyMethods
  /\ LET authHeader == AuthHeader(cookie, header)
         reads == method \in {"POST", "PATCH"}
         contacted == authHeader # << >> /\ (reads => bodyOk)
         status ==
           IF authHeader = << >> THEN 401
           ELSE IF reads /\ ~bodyOk THEN 500                \* request.json() throws
           ELSE IF backend.status = 0 THEN 500               \* fetch throws
           ELSE IF ~Ok(backend.status)
                THEN IF backend.json THEN backend.status ELSE 500
                ELSE IF method = "DELETE" THEN 204
                     ELSE IF backend.json THEN 200 ELSE 500
     IN proxy' = [method |-> method, cookie |-> cookie, header |-> header,
                  contacted |-> contacted,
                  forwarded |-> IF contacted THEN authHeader ELSE << >>,
                  backend |-> IF contacted THEN backend ELSE [status |-> 0, json |-> FALSE],
                  status |-> status]
  /\ notice' = ""
  /\ UNCHANGED << builderVars, ordersVars, homePage, sessionVars, wire, settingsPage, usersPage,
                  menuPage, customersPage, restaurant >>

InitProxy == OrdersViews(FALSE, FALSE) /\ AppIdle

ProxyNext ==
  \E method \in ProxyMethods, cookie \in CookieValues, header \in HeaderValues,
     bodyOk \in BOOLEAN, backend \in BackendAnswers :
    Users_route(method, cookie, header, bodyOk, backend)

SpecProxy == InitProxy /\ [][ProxyNext]_vars

Handled29 == proxy.method # ""

\* C29 (as claimed, SpecProxy): a request with neither cookie nor header is answered
\* 401 without contacting the backend; a forwarded Authorization starts with
\* "Bearer "; a non-OK backend answer is passed on with the backend's status.
C29_ProxyGuardsAndPassesOn ==
  Handled29 =>
    /\ (proxy.cookie = << >> /\ proxy.header = << >>) => (~proxy.contacted /\ proxy.status = 401)
    /\ proxy.contacted => StartsWithBearer(proxy.forwarded)
    /\ (proxy.contacted /\ proxy.backend.status # 0 /\ ~Ok(proxy.backend.status))
         => proxy.status = proxy.backend.status


\* the callbacks of setTimeout are run
SpecSheetFair == SpecSheet /\ WF_vars(timerFires)

\* the timer set by handleAddItem for the line added at index i is pending
AddedAt(i) == timers # << >> /\ Head(timers).index = i

\* C30 (as claimed, SpecSheetFair): after a menu item is added at index i the add-on
\* sheet opens on line i with that line's add-ons, unless the line is removed first;
\* and selectedItemIndex, when not null, is the index of a cart line.
C30_SheetOpensForNewLine ==
  /\ [](selectedItemIndex # 0 => selectedItemIndex \in 1..Len(selectedItems))
  /\ \A i \in 1..MaxLines :
       AddedAt(i) ~> \/ /\ isAddOnSheetOpen /\ selectedItemIndex = i
                        /\ i \in 1..Len(selectedItems)
                        /\ selectedAddOns = selectedItems[i].add_ons
                     \/ Len(selectedItems) < i

====
